---- MODULE Spec2Model ----
(***************************************************************************)
(* DropSync: the per-endpoint connection engine of src/hooks/useWebRTC.ts  *)
(* (second, current version of the hook: lines 349-1084), two endpoints    *)
(* "A" (opens the room first) and "B" (opens the shared link), the         *)
(* signaling relay of server.ts, and the peer transport between them.      *)
(*                                                                         *)
(* Wire strings are modelled as tuples whose first element is a tag, so    *)
(* that any two of them can be compared: a password "alpha" on the wire    *)
(* would be <<"alpha">>, a random challenge is <<"nonce", n>>, its base64  *)
(* text is <<"b64", <<"nonce", n>>>>.                                      *)
(***************************************************************************)
EXTENDS Integers, Sequences, FiniteSets, TLC

\* ------------------------------------------------------------------ bounds
\* Random 32-byte challenges are drawn from 1..MaxNonce.
MaxNonce == 2
\* sendChat calls of a run, over both endpoints.
MaxChats == 1
\* sendFiles calls (one file each) of a run, over both endpoints.
MaxFiles == 1
\* Files in one sendFiles call of the transfer specification.
MaxBatch == 2
\* Length of each file of that call, in bytes.
BatchFileLen == 1
\* cancelTransfer, declineFile and leaveRoom calls of a run, over both endpoints.
MaxCancels == 2
MaxDeclines == 1
MaxLeaves == 1
\* retryTransfer calls of a run, over both endpoints.
MaxRetries == 1
\* how many times the sockets lose their connection to the relay
MaxDrops == 2
\* Longest file, in bytes.
MaxFileLen == 3
\* Random 96-bit IVs are drawn from 1..MaxIv.
MaxIv == 1
\* Bytes per chunk: the code's CHUNK_SIZE (16384) scaled down to the model's files.
CHUNK_SIZE == 2

\* ------------------------------------------------------------- constants
IV_LEN == 12
TAG_LEN == 16
\* Math.round(x / 0 * 100): NaN for x = 0, Infinity otherwise.
NaN == 0 - 1
Infinity == 1000000

E == {"A", "B"}
Other(e) == IF e = "A" THEN "B" ELSE "A"
NULL == "null"
\* password?: string; undefined and "" are both falsy.
NoPw == ""
Passwords == {"alpha", "beta"}
Nonces == 1..MaxNonce
\* Channel 0 is the control stream "signaling"; channel id > 0 is "file-<id>".
MaxIds == MaxFiles * MaxBatch
FileIds == 1..(2 * MaxIds)
IdsOf(e) == IF e = "A" THEN 1..MaxIds ELSE (MaxIds + 1)..(2 * MaxIds)
\* The files a user may pick: the empty file and one of MaxFileLen distinct bytes.
Files == {[i \in 1..n |-> i] : n \in {0, MaxFileLen}}
BatchFiles == {[i \in 1..BatchFileLen |-> i]}
FileName == "a.txt"
Owner(id) == IF id \in IdsOf("A") THEN "A" ELSE "B"
IVs == 1..MaxIv

VARIABLES
  password,     \* passwordRef.current of each endpoint
  ep,           \* each endpoint's engine: React state, refs, its transport and channel ends
  room,         \* the relay: sockets that joined the room
  sockQ,        \* relay events on their way to each endpoint
  ctrlQ,        \* control-stream frames on their way to each endpoint
  fileQ,        \* file-substream frames on their way to each endpoint, per id
  authPending,  \* control-stream handlers suspended in signChallenge / verifyChallenge
  decrypting,   \* file-substream handlers suspended in decryptChunk, per id
  snd,          \* sendSingleFile coroutines, per id
  sink,         \* payloads handed to the output sink by acceptFile
  wire,         \* history: every frame passed to dc.send, per endpoint and channel
  relayed,      \* history: every frame emitted to the relay
  ghost         \* history: handshake outcome per endpoint (the code keeps none)

vars == <<password, ep, room, sockQ, ctrlQ, fileQ, authPending, decrypting, snd,
          sink, wire, relayed, ghost>>

\* ---------------------------------------------------------------- crypto
\* btoa(String.fromCharCode(...bytes)) and its inverse atob(...).split("").map(charCodeAt).
btoa(bytes) == <<"b64", bytes>>
atob(text) == text[2]

\* HMAC-SHA-256 over the nonce with a password-derived key: equal exactly when
\* nonce and password are equal.
signChallenge(challenge, pw) == <<"hmac", challenge, pw>>
verifyChallenge(challenge, sig, pw) == sig = signChallenge(challenge, pw)

deriveKey(pw) == <<"pbkdf2", pw>>
\* IV || AES-GCM(plaintext): a binary message. A plaintext chunk is the same
\* record with enc = FALSE.
encryptChunk(data, pw, iv) == [enc |-> TRUE, iv |-> iv, key |-> deriveKey(pw), data |-> data]
PlainChunk(data) == [enc |-> FALSE, iv |-> 0, key |-> <<>>, data |-> data]
\* decryptChunk throws on an authentication error.
CanDecrypt(m, pw) == m.enc /\ m.key = deriveKey(pw)
decryptChunk(m, pw) == m.data
\* new Uint8Array(event.data): the bytes as received; ciphertext bytes are opaque (-1).
RawBytes(m) ==
  IF m.enc THEN [i \in 1..(IV_LEN + Len(m.data) + TAG_LEN) |-> 0 - 1] ELSE m.data

\* ---------------------------------------------------------------- frames
AuthSkip == [type |-> "auth-skip"]
AuthChallenge(c) == [type |-> "auth-challenge", challenge |-> c]
AuthResponseFrame(sigB64, challengeB64) ==
  [type |-> "auth-response", signature |-> sigB64, challenge |-> challengeB64]
AuthOk == [type |-> "auth-ok"]
AuthFail == [type |-> "auth-fail"]
ChatFrame(id, text) == [type |-> "chat", id |-> id, text |-> text, timestamp |-> 0]
FileStart(name, size) == [type |-> "file-start", name |-> name, size |-> size]
FileEnd == [type |-> "file-end"]
TransferCancelled == [type |-> "transfer-cancelled"]
ChunkFrame(m) == [type |-> "chunk", bin |-> m]

\* ------------------------------------------------------------- endpoints
NoChan == [c \in FileIds |-> "none"]

EpInit ==
  [ mounted |-> FALSE,
    \* the RTCPeerConnection object last created, and whether pcRef.current holds it
    pcRef |-> FALSE, cs |-> "none", ss |-> "none", pcInit |-> FALSE, pcHandlers |-> FALSE,
    isConnected |-> FALSE, peerId |-> NULL, authError |-> NULL, latency |-> NULL,
    \* the offer handlings of handleSignal suspended at an await, each with the object
    \* of line 854 it works on
    negotiating |-> {},
    \* the socket of services/socket.ts: connected or not, which connection it is on
    \* (a connection has its own socket.id), the join-room emits held in its send
    \* buffer and those on their way to the relay
    online |-> TRUE, sid |-> 0, buffered |-> 0, pendingJoin |-> 0,
    \* handleReconnect has run (history)
    rejoined |-> FALSE,
    \* the id the peer's socket had in the event that made the transport
    peerSid |-> 0,
    \* the RTCPeerConnection objects made so far, the remote object whose description
    \* the last one has applied, and how many of them are not closed (history)
    gen |-> 0, remoteGen |-> 0, nLive |-> 0,
    \* this end of the control stream
    sigRef |-> FALSE, sigRS |-> "none", sigInit |-> FALSE, sigOpened |-> FALSE,
    sigCloseEvt |-> FALSE,
    \* this end of each file substream
    chanRS |-> NoChan, chanBound |-> {}, chanCloseEvt |-> {},
    \* the ids whose earlier substream, replaced by a retry, has its close event to come
    earlierCloseEvt |-> {},
    activeChannels |-> {},
    transfers |-> <<>>, transferStates |-> <<>>, pendingFiles |-> <<>>,
    chatMessages |-> <<>>,
    nChats |-> 0, nFiles |-> 0, nCancels |-> 0, nDeclines |-> 0, nLeaves |-> 0, nRetries |-> 0,
    nDrops |-> 0 ]

\* A sendSingleFile coroutine: where it is suspended, the bytes the source reader has
\* not yielded yet, the value it is slicing, the offset i, the chunk being encrypted.
SndIdle == [pc |-> "idle", rest |-> <<>>, value |-> <<>>, i |-> 0, sentSize |-> 0]

\* History the code does not keep: the handshake outcome, the challenge sent, the
\* challenges auth-ok was sent for; the ids whose chunk failed to decrypt before
\* their file-end, and the
\* ids cancelTransfer was called for while their status was sending.
GhostInit == [auth |-> "pending", challenge |-> <<>>, okFor |-> {}, replays |-> 0,
              decryptFailed |-> {}, cancelSending |-> {}, concurrent |-> {}]
\* A new transport starts a new handshake.
GhostReset(g) == [g EXCEPT !.auth = "pending", !.challenge = <<>>, !.okFor = {}, !.replays = 0]

Init ==
  /\ password \in [E -> {NoPw} \cup Passwords]
  /\ ep = [e \in E |-> EpInit]
  /\ room = {}
  /\ sockQ = [e \in E |-> <<>>]
  /\ ctrlQ = [e \in E |-> <<>>]
  /\ fileQ = [e \in E |-> [c \in FileIds |-> <<>>]]
  /\ authPending = [e \in E |-> {}]
  /\ decrypting = [e \in E |-> [c \in FileIds |-> <<>>]]
  /\ snd = [c \in FileIds |-> SndIdle]
  /\ sink = [e \in E |-> <<>>]
  /\ wire = [e \in E |-> [c \in {0} \cup FileIds |-> <<>>]]
  /\ relayed = {}
  /\ ghost = [e \in E |-> GhostInit]

\* pc.close(): the transport and every channel of it are closed abruptly.
ClosedChan(rs) == IF rs = "none" THEN "none" ELSE "closed"
pcClose(s) ==
  [s EXCEPT !.cs = "closed", !.ss = "closed",
            !.nLive = IF s.cs \in {"none", "closed"} THEN @ ELSE @ - 1,
            !.sigCloseEvt = @ \/ s.sigRS \in {"connecting", "open"},
            !.sigRS = ClosedChan(@),
            !.chanCloseEvt = @ \cup {c \in FileIds : s.chanRS[c] \in {"connecting", "open"}},
            !.chanRS = [c \in FileIds |-> ClosedChan(s.chanRS[c])]]

teardownPeerConnection(s) ==
  LET t == IF s.pcRef
           THEN [pcClose(s) EXCEPT !.pcHandlers = FALSE, !.pcRef = FALSE]
           ELSE s
  IN [t EXCEPT !.activeChannels = {}]

\* The branches of the control stream that reject the peer.
Reject(s, error) ==
  [teardownPeerConnection([s EXCEPT !.authError = error])
     EXCEPT !.isConnected = FALSE, !.peerId = NULL]

\* ------------------------------------------------------------- dc.send
\* Frames passed to dc.send by e on channel c, each with the handshake state e
\* was in (history).
Sent(e, c, frames) ==
  [wire EXCEPT ![e][c] = @ \o [i \in 1..Len(frames) |->
                                 [f |-> frames[i], auth |-> ghost[e].auth]]]
\* The peer's end takes what is sent until its transport object is closed.
CtrlArrives(e, frames) ==
  IF ep[Other(e)].cs = "closed" THEN ctrlQ[Other(e)] ELSE ctrlQ[Other(e)] \o frames

\* ------------------------------------------------------- the relay (server.ts)

\* An event of the relay: its sender's socket.id is (from, sid); gen names the
\* RTCPeerConnection a description comes from.
Msg(ev, e, gen, signal) ==
  [ev |-> ev, from |-> e, sid |-> ep[e].sid, gen |-> gen, signal |-> signal]
\* io.to(to).emit reaches the socket that has the id `to` now, if there is one.
Reaches(to, sid) == to \in E /\ ep[to].online /\ ep[to].sid = sid

\* A further socket in the room (the relay admits any number), a client of the same
\* program seen through the relay only: the events it causes and the signals it sends.
Third == "C"
ThirdMsg(ev, signal) ==
  [ev |-> ev, from |-> Third, sid |-> 0, gen |-> -1, signal |-> signal]

Send(q, to, m) ==
  [o \in DOMAIN q |-> IF o = to THEN Append(q[o], m) ELSE q[o]]

\* socket.on("join-room"): socket.join(roomId); socket.to(roomId).emit("user-joined",
\* socket.id).
JoinRoom(e) ==
  /\ room' = room \cup {e}
  /\ sockQ' = [o \in E |-> IF o \in room \ {e}
                           THEN Append(sockQ[o], Msg("user-joined", e, 0, ""))
                           ELSE IF o = e /\ Third \in room
                           THEN Append(sockQ[o], ThirdMsg("signal", "offer"))
                           ELSE sockQ[o]]
  /\ relayed' = relayed \cup {[type |-> "join-room", from |-> e, signal |-> ""]}

\* useEffect on mount: socket.emit("join-room", roomId); the relay joins the socket
\* to the room and emits user-joined to the sockets already in it.  B opens the
\* link A shared, so A mounts first.  On a socket that is not connected the emit
\* stays in the send buffer.
Mount(e) ==
  /\ ~ep[e].mounted
  /\ e = "B" => ep["A"].mounted
  /\ IF ep[e].online
     THEN /\ ep' = [ep EXCEPT ![e].mounted = TRUE]
          /\ JoinRoom(e)
     ELSE /\ ep' = [ep EXCEPT ![e].mounted = TRUE, ![e].buffered = 1]
          /\ UNCHANGED <<room, sockQ, relayed>>
  /\ UNCHANGED <<password, ctrlQ, fileQ, authPending, decrypting, snd, sink, wire, ghost>>

\* createPeerConnection without its cleanup of the previous transport.
createPeerConnection_NoCleanup(s, remoteId, isInitiator) ==
  [s EXCEPT !.authError = NULL,
            !.cs = "new", !.pcInit = isInitiator, !.pcHandlers = TRUE,
            !.ss = IF isInitiator THEN "have-local-offer" ELSE "stable",
            !.sigRS = IF isInitiator THEN "connecting" ELSE "none",
            !.sigRef = IF isInitiator THEN TRUE ELSE @,
            !.sigInit = IF isInitiator THEN TRUE ELSE @,
            !.sigOpened = FALSE, !.sigCloseEvt = FALSE,
            !.chanRS = NoChan, !.chanBound = {}, !.chanCloseEvt = {},
            !.gen = @ + 1, !.remoteGen = 0, !.nLive = @ + 1,
            !.pcRef = TRUE, !.peerId = remoteId]

\* createPeerConnection(remoteId, isInitiator), with the initiator's createOffer /
\* setLocalDescription.
createPeerConnection(s, remoteId, isInitiator) ==
  LET old == IF s.pcRef THEN [pcClose(s) EXCEPT !.pcHandlers = FALSE, !.pcRef = FALSE] ELSE s
  IN [old EXCEPT !.authError = NULL,
                 !.cs = "new", !.pcInit = isInitiator, !.pcHandlers = TRUE,
                 !.ss = IF isInitiator THEN "have-local-offer" ELSE "stable",
                 !.sigRS = IF isInitiator THEN "connecting" ELSE "none",
                 !.sigRef = IF isInitiator THEN TRUE ELSE @,
                 !.sigInit = IF isInitiator THEN TRUE ELSE @,
                 !.sigOpened = FALSE, !.sigCloseEvt = FALSE,
                 !.chanRS = NoChan, !.chanBound = {}, !.chanCloseEvt = {},
                 !.earlierCloseEvt = @ \cup (old.chanCloseEvt \cap old.chanBound),
                 !.gen = @ + 1, !.remoteGen = 0, !.nLive = @ + 1,
                 !.pcRef = TRUE, !.peerId = remoteId]

handleUserJoined(e) ==
  /\ sockQ[e] # <<>> /\ Head(sockQ[e]).ev = "user-joined"
  /\ LET remote == Head(sockQ[e]).from
         rsid == Head(sockQ[e]).sid
     IN /\ ep' = [ep EXCEPT ![e] = [createPeerConnection(@, remote, TRUE)
                                     EXCEPT !.peerSid = rsid]]
        /\ sockQ' = LET q == [sockQ EXCEPT ![e] = Tail(@)]
                    IN IF Reaches(remote, rsid)
                       THEN Send(q, remote, Msg("signal", e, ep[e].gen + 1, "offer"))
                       ELSE IF remote = Third
                       THEN Send(q, e, ThirdMsg("signal", "answer"))
                       ELSE q
        /\ relayed' = relayed \cup {[type |-> "signal", from |-> e, signal |-> "offer"]}
  /\ ghost' = [ghost EXCEPT ![e] = GhostReset(@)]
  /\ UNCHANGED <<password, room, ctrlQ, fileQ, authPending, decrypting, snd, sink, wire>>

\* handleSignal({from, signal}); ICE candidates are not modelled (the transport
\* connects once both descriptions are set).
handleSignal(e) ==
  /\ sockQ[e] # <<>> /\ Head(sockQ[e]).ev = "signal"
  /\ LET from == Head(sockQ[e]).from
         signal == Head(sockQ[e]).signal
         s == ep[e]
         fresh == ~s.pcRef \/ s.cs \in {"failed", "closed"}
         fsid == Head(sockQ[e]).sid
         fgen == Head(sockQ[e]).gen
         s1 == IF fresh /\ signal = "offer"
               THEN [createPeerConnection(s, from, FALSE) EXCEPT !.peerSid = fsid]
               ELSE s
         discard == (fresh /\ signal # "offer") \/ s1.ss = "closed"
         answers == ~discard /\ signal = "offer" /\ s1.ss = "stable"
         s2 == IF discard THEN s
               ELSE IF signal = "answer" /\ s1.ss = "have-local-offer"
                    THEN [s1 EXCEPT !.ss = "stable", !.remoteGen = fgen]
                    ELSE IF answers THEN [s1 EXCEPT !.remoteGen = fgen]
                    ELSE s1
     IN /\ ep' = [ep EXCEPT ![e] = s2]
        /\ sockQ' = LET q == [sockQ EXCEPT ![e] = Tail(@)]
                    IN IF answers /\ Reaches(from, fsid)
                       THEN Send(q, from, Msg("signal", e, s1.gen, "answer"))
                       ELSE q
        /\ relayed' = IF answers
                      THEN relayed \cup {[type |-> "signal", from |-> e, signal |-> "answer"]}
                      ELSE relayed
        /\ ghost' = IF fresh /\ signal = "offer" THEN [ghost EXCEPT ![e] = GhostReset(@)] ELSE ghost
  /\ UNCHANGED <<password, room, ctrlQ, fileQ, authPending, decrypting, snd, sink, wire>>

\* handleSignal up to its first await. An offer the signaling state allows leaves a
\* handling suspended on the object of line 854.
handleSignalBegin(e) ==
  /\ sockQ[e] # <<>> /\ Head(sockQ[e]).ev = "signal"
  /\ LET from == Head(sockQ[e]).from
         signal == Head(sockQ[e]).signal
         s == ep[e]
         fresh == ~s.pcRef \/ s.cs \in {"failed", "closed"}
         fsid == Head(sockQ[e]).sid
         fgen == Head(sockQ[e]).gen
         s1 == IF fresh /\ signal = "offer"
               THEN [createPeerConnection(s, from, FALSE) EXCEPT !.peerSid = fsid]
               ELSE s
         discard == (fresh /\ signal # "offer") \/ s1.ss = "closed"
         s2 == IF discard THEN s
               ELSE IF signal = "answer" /\ s1.ss = "have-local-offer"
                    THEN [s1 EXCEPT !.ss = "stable", !.remoteGen = fgen]
                    ELSE IF signal = "offer" /\ s1.ss \in {"stable", "have-remote-offer"}
                    THEN [s1 EXCEPT !.negotiating =
                             @ \cup {[stage |-> "setRemote", pc |-> s1.gen, from |-> from,
                                      sid |-> fsid, gen |-> fgen]}]
                    ELSE s1
     IN /\ ep' = [ep EXCEPT ![e] = s2]
        /\ sockQ' = [sockQ EXCEPT ![e] = Tail(@)]
        /\ ghost' = IF fresh /\ signal = "offer" THEN [ghost EXCEPT ![e] = GhostReset(@)] ELSE ghost
  /\ UNCHANGED <<password, room, ctrlQ, fileQ, authPending, decrypting, snd, sink, wire,
                 relayed>>

\* A suspended offer handling resumes after the await that ended: the remote offer is
\* applied (line 858), the answer made (860), the answer applied as local description
\* and emitted (862-867). open is the test of lines 859 and 861 on the object the
\* handling works on; an operation on a closed object, or one the signaling state does
\* not allow, ends the handling (an operation that never settles, or the catch of 881).
offerResume(e, n, open) ==
  /\ n \in ep[e].negotiating
  /\ LET s == ep[e]
         rest == s.negotiating \ {n}
         to(stage) == rest \cup {[n EXCEPT !.stage = stage]}
         remoteOk == open /\ n.stage = "setRemote"
         answerOk == open /\ n.stage = "createAnswer" /\ s.ss \in {"have-remote-offer", "closed"}
         emits == open /\ n.stage = "setLocal" /\ s.ss \in {"have-remote-offer", "closed"}
     IN /\ ep' = [ep EXCEPT ![e] =
                    IF remoteOk
                    THEN [s EXCEPT !.ss = "have-remote-offer", !.remoteGen = n.gen,
                                   !.negotiating = to("createAnswer")]
                    ELSE IF answerOk
                    THEN [s EXCEPT !.negotiating = to("setLocal")]
                    ELSE IF emits
                    THEN [s EXCEPT !.ss = "stable", !.negotiating = rest]
                    ELSE [s EXCEPT !.negotiating = rest]]
        /\ sockQ' = IF emits /\ Reaches(n.from, n.sid)
                    THEN Send(sockQ, n.from, Msg("signal", e, s.gen, "answer"))
                    ELSE sockQ
        /\ relayed' = IF emits
                      THEN relayed \cup {[type |-> "signal", from |-> e, signal |-> "answer"]}
                      ELSE relayed
  /\ UNCHANGED <<password, room, ctrlQ, fileQ, authPending, decrypting, snd, sink, wire,
                 ghost>>

\* A handling that goes on whatever has become of its object.
handleSignalResume_NoClosedTest(e, n) ==
  offerResume(e, n, TRUE)

handleSignalResume(e, n) ==
  offerResume(e, n, n.pc = ep[e].gen /\ ep[e].ss \notin {"none", "closed"})

\* A handler that treats disconnected like failed.
onconnectionstatechange_DisconnectedClears(s) ==
  IF ~s.pcHandlers THEN s
  ELSE IF s.cs = "connected" THEN [s EXCEPT !.isConnected = TRUE]
  ELSE IF s.cs \in {"failed", "closed", "disconnected"}
       THEN [s EXCEPT !.isConnected = FALSE, !.peerId = NULL, !.latency = NULL]
  ELSE s

\* pc.onconnectionstatechange
onconnectionstatechange(s) ==
  IF ~s.pcHandlers THEN s
  ELSE IF s.cs = "connected" THEN [s EXCEPT !.isConnected = TRUE]
  ELSE IF s.cs \in {"failed", "closed"}
       THEN [s EXCEPT !.isConnected = FALSE, !.peerId = NULL, !.latency = NULL]
  ELSE IF s.cs = "disconnected" THEN [s EXCEPT !.isConnected = FALSE]
  ELSE s

\* The transport connects once offer and answer are applied on both sides, each
\* to the object the other description comes from.
Negotiated(e) ==
  /\ ep[e].ss = "stable"
  /\ ep[Other(e)].ss = "stable" /\ ep[Other(e)].cs \in {"new", "connected"}
  /\ ep[e].remoteGen = ep[Other(e)].gen /\ ep[Other(e)].remoteGen = ep[e].gen

TransportConnected(e) ==
  /\ ep[e].cs = "new" /\ Negotiated(e)
  /\ ep' = [ep EXCEPT ![e] = onconnectionstatechange([@ EXCEPT !.cs = "connected"])]
  /\ UNCHANGED <<password, room, sockQ, ctrlQ, fileQ, authPending, decrypting, snd,
                 sink, wire, relayed, ghost>>

\* The peer closed its transport: this side's channels close, what was still on
\* its way here is lost, and the connection state drops to disconnected.
PeerGone(e) ==
  /\ ep[e].cs = "connected"
  /\ ep[Other(e)].cs = "closed" \/ ep[e].remoteGen # ep[Other(e)].gen
  /\ ep' = [ep EXCEPT ![e] =
              onconnectionstatechange([pcClose(@) EXCEPT !.cs = "disconnected", !.ss = ep[e].ss,
                                                          !.nLive = ep[e].nLive])]
  /\ ctrlQ' = [ctrlQ EXCEPT ![e] = <<>>]
  /\ fileQ' = [fileQ EXCEPT ![e] = [c \in FileIds |-> <<>>]]
  /\ UNCHANGED <<password, room, sockQ, authPending, decrypting, snd, sink, wire,
                 relayed, ghost>>

\* The path to the peer is lost for a while (the peer's transport is still
\* there): connectionState becomes disconnected, and connected again if the path
\* comes back.
IceDisconnected(e) ==
  /\ ep[e].cs = "connected"
  /\ ep' = [ep EXCEPT ![e] = onconnectionstatechange([@ EXCEPT !.cs = "disconnected"])]
  /\ UNCHANGED <<password, room, sockQ, ctrlQ, fileQ, authPending, decrypting, snd,
                 sink, wire, relayed, ghost>>

IceRecovered(e) ==
  /\ ep[e].cs = "disconnected" /\ ep[e].ss = "stable"
  /\ ep[Other(e)].cs \in {"connected", "disconnected"}
  /\ ep[e].remoteGen = ep[Other(e)].gen /\ ep[Other(e)].remoteGen = ep[e].gen
  /\ ep' = [ep EXCEPT ![e] = onconnectionstatechange([@ EXCEPT !.cs = "connected"])]
  /\ UNCHANGED <<password, room, sockQ, ctrlQ, fileQ, authPending, decrypting, snd,
                 sink, wire, relayed, ghost>>

\* The effect on isConnected: without a connection latency is cleared, with one
\* the 2 s interval sets it from getStats.
LatencyEffect(e) ==
  /\ ~ep[e].isConnected \/ ~ep[e].pcRef
  /\ ep[e].latency # NULL
  /\ ep' = [ep EXCEPT ![e].latency = NULL]
  /\ UNCHANGED <<password, room, sockQ, ctrlQ, fileQ, authPending, decrypting, snd,
                 sink, wire, relayed, ghost>>

StatsTick(e) ==
  /\ ep[e].isConnected /\ ep[e].pcRef /\ ep[e].cs = "connected"
  /\ ep[e].latency = NULL
  /\ ep' = [ep EXCEPT ![e].latency = "rtt"]
  /\ UNCHANGED <<password, room, sockQ, ctrlQ, fileQ, authPending, decrypting, snd,
                 sink, wire, relayed, ghost>>

IceFailed(e) ==
  /\ ep[e].cs = "disconnected"
  /\ ep' = [ep EXCEPT ![e] = onconnectionstatechange([@ EXCEPT !.cs = "failed"])]
  /\ UNCHANGED <<password, room, sockQ, ctrlQ, fileQ, authPending, decrypting, snd,
                 sink, wire, relayed, ghost>>

\* ------------------------------------------------- the control stream
\* pc.ondatachannel with label "signaling" (set on the responder's transport only).
OnDataChannelSignaling(e) ==
  /\ ep[e].cs = "connected" /\ ep[e].pcHandlers /\ ~ep[e].pcInit
  /\ ep[e].sigRS = "none"
  /\ ep[Other(e)].sigRS \in {"connecting", "open"} /\ ep[Other(e)].pcInit
  /\ ep' = [ep EXCEPT ![e].sigRef = TRUE, ![e].sigInit = FALSE, ![e].sigRS = "open",
                      ![e].sigOpened = FALSE]
  /\ UNCHANGED <<password, room, sockQ, ctrlQ, fileQ, authPending, decrypting, snd,
                 sink, wire, relayed, ghost>>

\* A dc.onopen that forgets the role test and challenges from both ends.
OnOpenFrames_NoRoleTest(pw, isInitiator, nonce) ==
  IF pw = NoPw THEN <<AuthSkip>>
  ELSE <<AuthChallenge(btoa(<<"nonce", nonce>>))>>

\* dc.onopen of the control stream: what it sends.
OnOpenFrames(pw, isInitiator, nonce) ==
  IF pw = NoPw THEN <<AuthSkip>>
  ELSE IF isInitiator THEN <<AuthChallenge(btoa(<<"nonce", nonce>>))>>
  ELSE <<>>

SigOnOpen(e) ==
  /\ \/ ep[e].sigRS = "connecting" /\ ep[e].cs = "connected"
     \/ ep[e].sigRS = "open" /\ ~ep[e].sigOpened
  /\ \E nonce \in Nonces :
       LET out == OnOpenFrames(password[e], ep[e].sigInit, nonce)
       IN /\ ctrlQ' = [ctrlQ EXCEPT ![Other(e)] = CtrlArrives(e, out)]
          /\ wire' = Sent(e, 0, out)
          /\ ghost' = IF out # <<>> /\ out[1].type = "auth-challenge"
                      THEN [ghost EXCEPT ![e].challenge = out[1].challenge]
                      ELSE ghost
  /\ ep' = [ep EXCEPT ![e].sigRS = "open", ![e].sigOpened = TRUE]
  /\ UNCHANGED <<password, room, sockQ, fileQ, authPending, decrypting, snd, sink, relayed>>

\* dc.onclose of the control stream.
SigOnClose(e) ==
  /\ ep[e].sigCloseEvt
  /\ ep' = [ep EXCEPT ![e].sigCloseEvt = FALSE, ![e].sigRef = FALSE]
  /\ UNCHANGED <<password, room, sockQ, ctrlQ, fileQ, authPending, decrypting, snd,
                 sink, wire, relayed, ghost>>

\* An auth-response that puts the password itself where the MAC belongs.
AuthResponseFor_PlainPassword(msg, pw) ==
  AuthResponseFrame(btoa(<<pw>>), msg.challenge)

\* The auth-response sent for an auth-challenge, once signChallenge resolved.
AuthResponseFor(msg, pw) ==
  AuthResponseFrame(btoa(signChallenge(atob(msg.challenge), pw)), msg.challenge)

\* A check of the auth-response that ignores the outcome of verifyChallenge.
AuthVerifyOk_IgnoresResult(msg, pw) == TRUE

\* The initiator's check of an auth-response.
AuthVerifyOk(msg, pw) ==
  verifyChallenge(atob(msg.challenge), atob(msg.signature), pw)

\* dc.onmessage of the control stream, up to its first await: the new engine
\* state, the frames sent, the suspended crypto call if any, the handshake outcome.
CtrlHandler(s, pw, msg, auth) ==
  LET keep == [s |-> s, out |-> <<>>, pend |-> {}, auth |-> auth]
      reject(error) == [s |-> Reject(s, error), out |-> <<AuthFail>>, pend |-> {},
                        auth |-> "rejected"]
  IN CASE msg.type = "auth-skip" ->
            IF pw # NoPw THEN reject("Password mismatch - peer has no password set.")
            ELSE [keep EXCEPT !.auth = "skipped"]
       [] msg.type = "auth-challenge" ->
            IF pw = NoPw
            THEN reject("Password required - peer has password protection enabled.")
            ELSE [keep EXCEPT !.pend = {[op |-> "sign", msg |-> msg, pw |-> pw]}]
       [] msg.type = "auth-response" ->
            IF pw = NoPw THEN reject("Password mismatch - peer has a password set.")
            ELSE [keep EXCEPT !.pend = {[op |-> "verify", msg |-> msg, pw |-> pw]}]
       [] msg.type = "auth-ok" ->
            [keep EXCEPT !.s.authError = NULL, !.auth = "admitted"]
       [] msg.type = "auth-fail" ->
            [s |-> Reject(s, "Wrong password - rejected by peer."), out |-> <<>>,
             pend |-> {}, auth |-> "rejected"]
       [] msg.type = "chat" ->
            [keep EXCEPT !.s.chatMessages =
               Append(@, [id |-> msg.id, text |-> msg.text, from |-> "peer"])]
       [] OTHER -> keep

OnCtrlMessage(e) ==
  /\ ep[e].sigRS = "open" /\ ep[e].sigOpened
  /\ ctrlQ[e] # <<>>
  /\ LET r == CtrlHandler(ep[e], password[e], Head(ctrlQ[e]), ghost[e].auth)
     IN /\ ep' = [ep EXCEPT ![e] = r.s]
        /\ ctrlQ' = [ctrlQ EXCEPT ![e] = IF r.s.sigRS = "open" THEN Tail(@) ELSE <<>>,
                                  ![Other(e)] = CtrlArrives(e, r.out)]
        /\ fileQ' = IF r.s.sigRS = "open" THEN fileQ
                    ELSE [fileQ EXCEPT ![e] = [c \in FileIds |-> <<>>]]
        /\ wire' = Sent(e, 0, r.out)
        /\ authPending' = [authPending EXCEPT ![e] = @ \cup r.pend]
        /\ ghost' = [ghost EXCEPT ![e].auth = r.auth]
  /\ UNCHANGED <<password, room, sockQ, decrypting, snd, sink, relayed>>

\* signChallenge resolved: the auth-challenge handler sends auth-response; dc.send
\* throws on a channel that is not open and the handler's catch logs it.
AuthSignDone(e) ==
  \E p \in authPending[e] :
    /\ p.op = "sign"
    /\ authPending' = [authPending EXCEPT ![e] = @ \ {p}]
    /\ LET out == IF ep[e].sigRS = "open" THEN <<AuthResponseFor(p.msg, p.pw)>> ELSE <<>>
       IN /\ ctrlQ' = [ctrlQ EXCEPT ![Other(e)] = CtrlArrives(e, out)]
          /\ wire' = Sent(e, 0, out)
    /\ UNCHANGED <<password, ep, room, sockQ, fileQ, decrypting, snd, sink, relayed, ghost>>

\* verifyChallenge resolved: auth-ok, or auth-fail and teardown.
AuthVerifyDone(e) ==
  \E p \in authPending[e] :
    /\ p.op = "verify"
    /\ authPending' = [authPending EXCEPT ![e] = @ \ {p}]
    /\ LET ok == AuthVerifyOk(p.msg, p.pw)
           open == ep[e].sigRS = "open"
           s == ep[e]
           s1 == IF ok THEN (IF open THEN [s EXCEPT !.authError = NULL] ELSE s)
                 ELSE IF open THEN Reject(s, "Wrong password - authentication failed.")
                 ELSE [s EXCEPT !.authError = "Wrong password - authentication failed."]
           out == IF ~open THEN <<>> ELSE IF ok THEN <<AuthOk>> ELSE <<AuthFail>>
       IN /\ ep' = [ep EXCEPT ![e] = s1]
          /\ ctrlQ' = [ctrlQ EXCEPT ![e] = IF s1.sigRS = "open" THEN @ ELSE <<>>,
                                    ![Other(e)] = CtrlArrives(e, out)]
          /\ fileQ' = IF s1.sigRS = "open" THEN fileQ
                      ELSE [fileQ EXCEPT ![e] = [c \in FileIds |-> <<>>]]
          /\ wire' = Sent(e, 0, out)
          /\ ghost' = IF ~open THEN ghost
                      ELSE IF ok THEN [ghost EXCEPT ![e].auth = "admitted",
                                                    ![e].okFor = @ \cup {p.msg.challenge}]
                      ELSE [ghost EXCEPT ![e].auth = "rejected"]
    /\ UNCHANGED <<password, room, sockQ, decrypting, snd, sink, relayed>>

\* sendChat(text); a call without an open control stream returns at once.
sendChat(e) ==
  /\ ep["A"].nChats + ep["B"].nChats < MaxChats
  /\ ep[e].sigRef /\ ep[e].sigRS = "open"
  /\ LET msg == ChatFrame(ep[e].nChats + 1, <<"hi">>)
     IN /\ ctrlQ' = [ctrlQ EXCEPT ![Other(e)] = CtrlArrives(e, <<msg>>)]
        /\ wire' = Sent(e, 0, <<msg>>)
        /\ ep' = [ep EXCEPT ![e].nChats = @ + 1,
                            ![e].chatMessages =
                               Append(@, [id |-> msg.id, text |-> msg.text, from |-> "me"])]
  /\ UNCHANGED <<password, room, sockQ, fileQ, authPending, decrypting, snd, sink,
                 relayed, ghost>>

NextCtrl ==
  \E e \in E :
    \/ Mount(e) \/ handleUserJoined(e) \/ handleSignal(e)
    \/ TransportConnected(e) \/ PeerGone(e) \/ IceFailed(e)
    \/ OnDataChannelSignaling(e) \/ SigOnOpen(e) \/ SigOnClose(e)
    \/ OnCtrlMessage(e) \/ AuthSignDone(e) \/ AuthVerifyDone(e)
    \/ sendChat(e)

\* ------------------------------------------------------- file substreams
Put(f, k, v) == [x \in DOMAIN f \cup {k} |-> IF x = k THEN v ELSE f[x]]
Drop(f, k) == [x \in DOMAIN f \ {k} |-> f[x]]
RECURSIVE Concat(_)
Concat(chunks) == IF chunks = <<>> THEN <<>> ELSE Head(chunks) \o Concat(Tail(chunks))
RECURSIVE TotalLen(_)
TotalLen(chunks) == IF chunks = <<>> THEN 0 ELSE Len(Head(chunks)) + TotalLen(Tail(chunks))
\* Math.round((n / size) * 100)
Progress(n, size) ==
  IF size = 0 THEN (IF n = 0 THEN NaN ELSE Infinity) ELSE (200 * n + size) \div (2 * size)

FileArrives(e, id, frames) ==
  IF ep[Other(e)].cs = "closed" \/ ep[Other(e)].chanRS[id] = "closed"
  THEN fileQ[Other(e)][id]
  ELSE fileQ[Other(e)][id] \o frames

NewTransferState == [receivedChunks |-> <<>>, cancelled |-> FALSE, reader |-> FALSE,
                     hasFile |-> FALSE, name |-> "", size |-> 0]

\* setupFileDataChannel(dc, id)
setupFileDataChannel(s, id) ==
  [s EXCEPT !.activeChannels = @ \cup {id},
            !.chanBound = @ \cup {id},
            !.transferStates = IF id \in DOMAIN @ THEN @ ELSE Put(@, id, NewTransferState)]

\* setTransfers(prev => prev[id] ? { ...prev, [id]: { ...prev[id], ...upd } } : prev)
SetTransfer(s, id, upd) ==
  IF id \in DOMAIN s.transfers
  THEN [s EXCEPT !.transfers[id] =
          [f \in DOMAIN @ |-> IF f \in DOMAIN upd THEN upd[f] ELSE @[f]]]
  ELSE s

\* sendSingleFile(file), up to its first await: what it does to the engine ...
\* The precondition without the test of connectionState.
NotConnected_NoStateTest(s) == ~s.pcRef
NotConnected(s) == ~s.pcRef \/ s.cs # "connected"
sendSingleFileEp(s, id, data) ==
  LET t(status, error) == [id |-> id, name |-> FileName, size |-> Len(data), progress |-> 0,
                           status |-> status, direction |-> "send", error |-> error,
                           file |-> data]
  IN IF NotConnected(s)
     THEN [s EXCEPT !.transfers = Put(@, id, t("error", "Not connected"))]
     ELSE [setupFileDataChannel([s EXCEPT !.chanRS[id] = "connecting"], id)
             EXCEPT !.transferStates = Put(@, id, NewTransferState),
                    !.transfers = Put(@, id, t("sending", NULL))]
\* ... and the coroutine it leaves suspended at the wait for the substream to open.
sendSingleFileSnd(s, c, data) ==
  IF NotConnected(s) THEN c ELSE [SndIdle EXCEPT !.pc = "waitOpen", !.rest = data]

sendSingleFile(e, id, data) ==
  /\ ep' = [ep EXCEPT ![e] = [sendSingleFileEp(@, id, data) EXCEPT !.nFiles = @ + 1]]
  /\ snd' = [snd EXCEPT ![id] = sendSingleFileSnd(ep[e], @, data)]

\* sendFiles([file])
\* The ids sendFiles draws from: Math.random() gives an id that no transfer has had.
FreshIds(e) ==
  {c \in IdsOf(e) : c \notin DOMAIN ep[e].transfers /\ snd[c].pc = "idle" /\ wire[e][c] = <<>>}

sendFiles(e) ==
  /\ ep[e].mounted /\ ep["A"].nFiles + ep["B"].nFiles < MaxFiles
  /\ \E data \in Files :
       LET id == CHOOSE c \in FreshIds(e) : TRUE
       IN sendSingleFile(e, id, data)
  /\ UNCHANGED <<password, room, sockQ, ctrlQ, fileQ, authPending, decrypting, sink,
                 wire, relayed, ghost>>

\* pc.ondatachannel for a substream the peer opened: the responder's transport binds
\* a label file-<id> to setupFileDataChannel; the initiator's transport has no handler.
ondatachannel(s, id) ==
  IF s.pcHandlers /\ ~s.pcInit THEN setupFileDataChannel(s, id) ELSE s

OnDataChannelFile(e, id) ==
  /\ Owner(id) = Other(e)
  /\ ep[e].cs = "connected" /\ ep[e].chanRS[id] = "none"
  /\ ep[Other(e)].chanRS[id] = "connecting"
  /\ ep' = [ep EXCEPT ![e] = ondatachannel([@ EXCEPT !.chanRS[id] = "open"], id)]
  /\ UNCHANGED <<password, room, sockQ, ctrlQ, fileQ, authPending, decrypting, snd, sink,
                 wire, relayed, ghost>>

\* The sender's side of the send loop.  bufferedAmount is what is still on its way
\* to the peer; the threshold is the code's 65536 = 4 chunks.
bufferedAmountLowThreshold == 4 * CHUNK_SIZE
RECURSIVE FrameBytes(_)
FrameBytes(q) ==
  IF q = <<>> THEN 0
  ELSE (IF Head(q).type = "chunk" THEN Len(RawBytes(Head(q).bin)) ELSE 0) + FrameBytes(Tail(q))

\* One pass of `for (i = 0; i < value.length; i += CHUNK_SIZE)` without a password,
\* from offset i on: no await in it, so the chunks of one value go out in one task.
RECURSIVE PlainChunks(_, _)
PlainChunks(value, i) ==
  IF i >= Len(value) THEN <<>>
  ELSE LET hi == IF i + CHUNK_SIZE < Len(value) THEN i + CHUNK_SIZE ELSE Len(value)
       IN <<ChunkFrame(PlainChunk(SubSeq(value, i + 1, hi)))>> \o PlainChunks(value, i + CHUNK_SIZE)

\* sentSize += (value.length - i < CHUNK_SIZE) ? value.length - i : CHUNK_SIZE
SentStep(value, i) == IF Len(value) - i < CHUNK_SIZE THEN Len(value) - i ELSE CHUNK_SIZE

\* The catch and finally blocks of sendSingleFile.
SendFailed(s, id, error) ==
  LET st == s.transferStates[id]
      s1 == SetTransfer(s, id, [status |-> IF st.cancelled THEN "cancelled" ELSE "error",
                                error |-> error])
  IN [s1 EXCEPT !.transferStates[id].reader = FALSE]

\* The substream opened: file-start goes out and the loop awaits reader.read().
SendOpen(id) ==
  LET e == Owner(id) IN
  /\ snd[id].pc = "waitOpen"
  /\ ep[e].chanRS[id] = "connecting" /\ ep[Other(e)].chanRS[id] = "open"
  /\ LET out == <<FileStart(FileName, Len(snd[id].rest))>>
         st == ep[e].transferStates[id]
     IN /\ fileQ' = [fileQ EXCEPT ![Other(e)][id] = FileArrives(e, id, out)]
        /\ wire' = Sent(e, id, out)
        /\ IF st.cancelled
           THEN /\ ep' = [ep EXCEPT ![e] = SendFailed([@ EXCEPT !.chanRS[id] = "open"], id, "Cancelled")]
                /\ snd' = [snd EXCEPT ![id].pc = "failed"]
           ELSE /\ ep' = [ep EXCEPT ![e].chanRS[id] = "open", ![e].transferStates[id].reader = TRUE]
                /\ snd' = [snd EXCEPT ![id].pc = "read"]
  /\ UNCHANGED <<password, room, sockQ, ctrlQ, authPending, decrypting, sink, relayed, ghost>>

\* After the loop: file-end if the substream is open, completed, close in 1 s.
\* setTimeout(() => reject(new Error("Channel open timeout")), 5000) while the
\* substream has not opened: the await sits before the try block, so the rejection
\* ends sendSingleFile without passing through its catch or finally.
OpenTimeout(id) ==
  /\ snd[id].pc = "waitOpen"
  /\ ep[Owner(id)].chanRS[id] # "open"
  /\ snd' = [snd EXCEPT ![id].pc = "rejected"]
  /\ UNCHANGED <<password, ep, room, sockQ, ctrlQ, fileQ, authPending, decrypting, sink,
                 wire, relayed, ghost>>

\* The 30 s timer of the wait for buffered-amount-low rejects: the catch and finally
\* blocks run.
BufferTimeout(id) ==
  /\ snd[id].pc = "buf"
  /\ ep' = [ep EXCEPT ![Owner(id)] = SendFailed(@, id, "Buffer timeout")]
  /\ snd' = [snd EXCEPT ![id].pc = "failed"]
  /\ UNCHANGED <<password, room, sockQ, ctrlQ, fileQ, authPending, decrypting, sink, wire,
                 relayed, ghost>>

\* The completion path without the progress write.
SendFinish_KeepsProgress(e, id) ==
  LET open == ep[e].chanRS[id] = "open"
      out == IF open THEN <<FileEnd>> ELSE <<>>
      s1 == SetTransfer(ep[e], id, [status |-> "completed"])
  IN /\ fileQ' = [fileQ EXCEPT ![Other(e)][id] = FileArrives(e, id, out)]
     /\ wire' = Sent(e, id, out)
     /\ ep' = [ep EXCEPT ![e] = [s1 EXCEPT !.transferStates[id].reader = FALSE]]
     /\ snd' = [snd EXCEPT ![id].pc = "done"]

SendFinish(e, id) ==
  LET open == ep[e].chanRS[id] = "open"
      out == IF open THEN <<FileEnd>> ELSE <<>>
      s1 == SetTransfer(ep[e], id, [progress |-> 100, status |-> "completed"])
  IN /\ fileQ' = [fileQ EXCEPT ![Other(e)][id] = FileArrives(e, id, out)]
     /\ wire' = Sent(e, id, out)
     /\ ep' = [ep EXCEPT ![e] = [s1 EXCEPT !.transferStates[id].reader = FALSE]]
     /\ snd' = [snd EXCEPT ![id].pc = "done"]

\* A chunk goes out: the readyState check, dc.send, sentSize and progress.
SendChunk(s, id, c, m) ==
  SetTransfer(s, id, [progress |-> Progress(c.sentSize, s.transfers[id].size)])

\* dc.bufferedAmount > dc.bufferedAmountLowThreshold: what was sent and not yet
\* handled by the peer bounds what is still buffered, so above the threshold the
\* test may go either way.
MayWait(e, id) ==
  IF FrameBytes(fileQ[Other(e)][id]) > bufferedAmountLowThreshold THEN BOOLEAN ELSE {FALSE}

\* The rest of the loop body without a password, for the value c.value: the
\* readyState check, dc.send of each chunk, progress; then the loop head.
SendPlainValue(e, id, c) ==
  IF ep[e].chanRS[id] # "open"
  THEN /\ ep' = [ep EXCEPT ![e] = SendFailed(@, id, "Connection closed")]
       /\ snd' = [snd EXCEPT ![id] = [c EXCEPT !.pc = "failed", !.value = <<>>]]
       /\ UNCHANGED <<fileQ, wire>>
  ELSE LET out == PlainChunks(c.value, 0)
           c1 == [c EXCEPT !.sentSize = @ + Len(c.value), !.value = <<>>, !.i = 0]
       IN /\ fileQ' = [fileQ EXCEPT ![Other(e)][id] = FileArrives(e, id, out)]
          /\ wire' = Sent(e, id, out)
          /\ IF ep[e].transferStates[id].cancelled
             THEN /\ ep' = [ep EXCEPT ![e] = SendFailed(SendChunk(@, id, c1, out), id, "Cancelled")]
                  /\ snd' = [snd EXCEPT ![id] = [c1 EXCEPT !.pc = "failed"]]
             ELSE /\ ep' = [ep EXCEPT ![e] = SendChunk(@, id, c1, out)]
                  /\ snd' = [snd EXCEPT ![id] = [c1 EXCEPT !.pc = "read"]]

\* The rest of the loop body with a password, for the chunk at offset c.i that
\* encryptChunk returned with the given iv: the readyState check, dc.send, progress;
\* then the next chunk of the value is encrypted, or the loop head is reached.
SendEncryptedChunk(e, id, c, iv) ==
  LET hi == IF c.i + CHUNK_SIZE < Len(c.value) THEN c.i + CHUNK_SIZE ELSE Len(c.value)
      m == encryptChunk(SubSeq(c.value, c.i + 1, hi), password[e], iv)
      c1 == [c EXCEPT !.sentSize = @ + SentStep(c.value, c.i), !.i = @ + CHUNK_SIZE]
      more == c1.i < Len(c.value)
  IN IF ep[e].chanRS[id] # "open"
     THEN /\ ep' = [ep EXCEPT ![e] = SendFailed(@, id, "Connection closed")]
          /\ snd' = [snd EXCEPT ![id] = [c EXCEPT !.pc = "failed"]]
          /\ UNCHANGED <<fileQ, wire>>
     ELSE /\ fileQ' = [fileQ EXCEPT ![Other(e)][id] = FileArrives(e, id, <<ChunkFrame(m)>>)]
          /\ wire' = Sent(e, id, <<ChunkFrame(m)>>)
          /\ IF ~more /\ ep[e].transferStates[id].cancelled
             THEN /\ ep' = [ep EXCEPT ![e] = SendFailed(SendChunk(@, id, c1, m), id, "Cancelled")]
                  /\ snd' = [snd EXCEPT ![id] = [c1 EXCEPT !.pc = "failed"]]
             ELSE /\ ep' = [ep EXCEPT ![e] = SendChunk(@, id, c1, m)]
                  /\ snd' = [snd EXCEPT ![id] = [c1 EXCEPT !.pc = IF more THEN "enc" ELSE "read"]]

\* reader.read() resolved.
SendRead(id) ==
  LET e == Owner(id)
      c == snd[id]
  IN
  /\ c.pc = "read"
  /\ IF c.rest = <<>>
     THEN SendFinish(e, id)
     ELSE \E n \in 1..Len(c.rest) :
            LET c1 == [c EXCEPT !.value = SubSeq(c.rest, 1, n),
                                !.rest = SubSeq(c.rest, n + 1, Len(c.rest)), !.i = 0]
            IN IF password[e] # NoPw
               THEN \* await encryptChunk(chunk, pw)
                    /\ snd' = [snd EXCEPT ![id] = [c1 EXCEPT !.pc = "enc"]]
                    /\ UNCHANGED <<ep, fileQ, wire>>
               ELSE \E wait \in MayWait(e, id) :
                      IF wait
                      THEN \* await buffered-amount-low
                           /\ snd' = [snd EXCEPT ![id] = [c1 EXCEPT !.pc = "buf"]]
                           /\ UNCHANGED <<ep, fileQ, wire>>
                      ELSE SendPlainValue(e, id, c1)
  /\ UNCHANGED <<password, room, sockQ, ctrlQ, authPending, decrypting, sink, relayed, ghost>>

\* encryptChunk resolved: the chunk goes out, unless the loop first awaits
\* buffered-amount-low.
SendEncrypted(id) ==
  LET e == Owner(id)
      c == snd[id]
  IN
  /\ c.pc = "enc"
  /\ \E wait \in MayWait(e, id) :
       IF wait
       THEN /\ snd' = [snd EXCEPT ![id].pc = "buf"]
            /\ UNCHANGED <<ep, fileQ, wire>>
       ELSE \E iv \in IVs : SendEncryptedChunk(e, id, c, iv)
  /\ UNCHANGED <<password, room, sockQ, ctrlQ, authPending, decrypting, sink, relayed, ghost>>

\* A resumption that goes on with the chunk after the one it was holding.
BufferedAmountLow_SkipsChunk(id) ==
  LET e == Owner(id)
      c == [snd[id] EXCEPT !.i = @ + CHUNK_SIZE]
  IN
  /\ snd[id].pc = "buf"
  /\ IF c.i >= Len(c.value)
     THEN /\ snd' = [snd EXCEPT ![id] = [c EXCEPT !.pc = "read"]]
          /\ UNCHANGED <<ep, fileQ, wire>>
     ELSE IF password[e] # NoPw
          THEN \E iv \in IVs : SendEncryptedChunk(e, id, c, iv)
          ELSE SendPlainValue(e, id, [c EXCEPT !.value = SubSeq(@, c.i + 1, Len(@))])
  /\ UNCHANGED <<password, room, sockQ, ctrlQ, authPending, decrypting, sink, relayed, ghost>>

\* dc.onbufferedamountlow: the loop goes on with the chunk it was holding.
BufferedAmountLow(id) ==
  LET e == Owner(id)
      c == snd[id]
  IN
  /\ c.pc = "buf"
  /\ IF password[e] # NoPw
     THEN \E iv \in IVs : SendEncryptedChunk(e, id, c, iv)
     ELSE SendPlainValue(e, id, c)
  /\ UNCHANGED <<password, room, sockQ, ctrlQ, authPending, decrypting, sink, relayed, ghost>>

\* The receiver's side: dc.onmessage of a file substream, up to its first await.
FileHandler(s, pw, id, msg) ==
  LET st == s.transferStates[id] IN
  CASE msg.type = "file-start" ->
         [s EXCEPT !.transferStates[id] = [st EXCEPT !.hasFile = TRUE, !.name = msg.name,
                                                     !.size = msg.size, !.receivedChunks = <<>>],
                   !.transfers = Put(@, id, [id |-> id, name |-> msg.name, size |-> msg.size,
                                             progress |-> 0, status |-> "receiving",
                                             direction |-> "receive", error |-> NULL,
                                             file |-> <<>>])]
    [] msg.type = "file-end" ->
         LET blob == Concat(st.receivedChunks)
             s1 == [s EXCEPT !.transferStates[id].receivedChunks = <<>>,
                             !.pendingFiles = Put(@, id,
                                [id |-> id,
                                 name |-> IF st.hasFile THEN st.name ELSE "download",
                                 size |-> IF st.hasFile THEN st.size ELSE Len(blob),
                                 blob |-> blob])]
         IN SetTransfer(s1, id, [progress |-> 100, status |-> "pending-accept"])
    [] msg.type = "transfer-cancelled" ->
         SetTransfer([s EXCEPT !.transferStates[id].receivedChunks = <<>>], id,
                     [status |-> "cancelled", error |-> "Cancelled by peer"])
    [] msg.type = "chunk" /\ pw = NoPw ->
         LET chunks == Append(st.receivedChunks, RawBytes(msg.bin))
         IN SetTransfer([s EXCEPT !.transferStates[id].receivedChunks = chunks], id,
                        [progress |-> Progress(TotalLen(chunks), s.transfers[id].size)])
    [] OTHER -> s

\* dc.close() on this end of a substream.
dcClose(s, id) ==
  IF s.chanRS[id] \in {"connecting", "open"}
  THEN [s EXCEPT !.chanRS[id] = "closed", !.chanCloseEvt = @ \cup {id}]
  ELSE s

OnFileMessage(e, id) ==
  /\ ep[e].chanRS[id] = "open"
  /\ fileQ[e][id] # <<>>
  /\ LET msg == Head(fileQ[e][id])
         handled == id \in ep[e].chanBound /\ id \in DOMAIN ep[e].transferStates
         s1 == IF handled THEN FileHandler(ep[e], password[e], id, msg) ELSE ep[e]
         s2 == IF handled /\ msg.type \in {"file-end", "transfer-cancelled"}
               THEN dcClose(s1, id) ELSE s1
     IN /\ ep' = [ep EXCEPT ![e] = s2]
        /\ fileQ' = [fileQ EXCEPT ![e][id] = IF s2.chanRS[id] = "open" THEN Tail(@) ELSE <<>>]
        /\ decrypting' = IF handled /\ msg.type = "chunk" /\ password[e] # NoPw
                         THEN [decrypting EXCEPT ![e][id] = Append(@, [m |-> msg.bin, pw |-> password[e]])]
                         ELSE decrypting
        /\ ghost' = IF handled /\ msg.type = "file-start"
                    THEN [ghost EXCEPT ![e].decryptFailed = @ \ {id}]
                    ELSE ghost
        \* if (state.reader) state.reader.cancel()
        /\ snd' = IF handled /\ msg.type = "transfer-cancelled" /\ ep[e].transferStates[id].reader
                  THEN [snd EXCEPT ![id].rest = <<>>]
                  ELSE snd
  /\ UNCHANGED <<password, room, sockQ, ctrlQ, authPending, sink, wire, relayed>>

\* decryptChunk resolved for one of the chunks being decrypted: the chunk is
\* pushed, or the handler's catch sets the transfer to error.
DecryptDone(e, id) ==
  \E k \in 1..Len(decrypting[e][id]) :
    LET d == decrypting[e][id][k]
        s == ep[e]
        chunks == Append(s.transferStates[id].receivedChunks, decryptChunk(d.m, d.pw))
    IN /\ decrypting' = [decrypting EXCEPT ![e][id] =
                           SubSeq(@, 1, k - 1) \o SubSeq(@, k + 1, Len(@))]
       /\ ep' = [ep EXCEPT ![e] =
                   IF CanDecrypt(d.m, d.pw)
                   THEN SetTransfer([s EXCEPT !.transferStates[id].receivedChunks = chunks], id,
                                    [progress |-> Progress(TotalLen(chunks), s.transfers[id].size)])
                   ELSE SetTransfer(s, id, [status |-> "error", error |-> "Processing error"])]
       /\ ghost' = IF CanDecrypt(d.m, d.pw) \/ id \in DOMAIN s.pendingFiles THEN ghost
                   ELSE [ghost EXCEPT ![e].decryptFailed = @ \cup {id}]
       /\ UNCHANGED <<password, room, sockQ, ctrlQ, fileQ, authPending, snd, sink, wire,
                      relayed>>

\* acceptFile(id): the payload goes to the output sink.
\* acceptFile without its setPendingFiles call.
acceptFile_KeepsPending(e, id) ==
  /\ id \in DOMAIN ep[e].pendingFiles
  /\ LET pending == ep[e].pendingFiles[id]
     IN /\ sink' = [sink EXCEPT ![e] = Append(@, [id |-> id, name |-> pending.name,
                                                  payload |-> pending.blob])]
        /\ ep' = [ep EXCEPT ![e] = SetTransfer(@, id, [status |-> "completed"])]
  /\ UNCHANGED <<password, room, sockQ, ctrlQ, fileQ, authPending, decrypting, snd, wire,
                 relayed, ghost>>

acceptFile(e, id) ==
  /\ id \in DOMAIN ep[e].pendingFiles
  /\ LET pending == ep[e].pendingFiles[id]
     IN /\ sink' = [sink EXCEPT ![e] = Append(@, [id |-> id, name |-> pending.name,
                                                  payload |-> pending.blob])]
        /\ ep' = [ep EXCEPT ![e] =
                    SetTransfer([@ EXCEPT !.pendingFiles = Drop(@, id)], id,
                                [status |-> "completed"])]
  /\ UNCHANGED <<password, room, sockQ, ctrlQ, fileQ, authPending, decrypting, snd, wire,
                 relayed, ghost>>

\* ------------------------------------------------- user operations on transfers
\* cancelTransfer(id): the cancellation flag of the receive/send state of id.
\* cancelTransfer with a flag write that reaches every transfer state.
cancelState_All(s, id) ==
  [s EXCEPT !.transferStates = [c \in DOMAIN @ |-> [@[c] EXCEPT !.cancelled = TRUE]]]

\* The other transfers that are being sent while the transfer id is.
InFlight(s, id) ==
  {c \in DOMAIN s.transfers \ {id} : s.transfers[c].status = "sending"}

cancelState(s, id) ==
  IF id \in DOMAIN s.transferStates
  THEN [s EXCEPT !.transferStates[id].cancelled = TRUE]
  ELSE s

\* cancelTransfer(id)
cancelTransfer(e, id) ==
  /\ ep["A"].nCancels + ep["B"].nCancels < MaxCancels
  \* the caller has the ids of the transfers map that the hook returns
  /\ id \in DOMAIN ep[e].transfers
  /\ LET s == ep[e]
         readerCancel == id \in DOMAIN s.transferStates /\ s.transferStates[id].reader
         open == id \in s.activeChannels /\ s.chanRS[id] = "open"
         out == IF open THEN <<TransferCancelled>> ELSE <<>>
     IN /\ ep' = [ep EXCEPT ![e] =
                    [SetTransfer(cancelState(s, id), id, [status |-> "cancelled"])
                       EXCEPT !.nCancels = @ + 1]]
        \* state.reader.cancel(): a pending read resolves with done
        /\ snd' = IF readerCancel THEN [snd EXCEPT ![id].rest = <<>>] ELSE snd
        /\ fileQ' = [fileQ EXCEPT ![Other(e)][id] = FileArrives(e, id, out)]
        /\ wire' = Sent(e, id, out)
        /\ ghost' = IF s.transfers[id].status = "sending"
                    THEN [ghost EXCEPT ![e].cancelSending = @ \cup {id},
                                       ![e].concurrent = @ \cup InFlight(s, id)]
                    ELSE ghost
  /\ UNCHANGED <<password, room, sockQ, ctrlQ, authPending, decrypting, sink, relayed>>

\* declineFile(id)
declineFile(e, id) ==
  /\ ep["A"].nDeclines + ep["B"].nDeclines < MaxDeclines
  /\ id \in DOMAIN ep[e].pendingFiles \cup DOMAIN ep[e].transfers
  /\ ep' = [ep EXCEPT ![e] =
              [SetTransfer([@ EXCEPT !.pendingFiles = Drop(@, id)], id,
                           [status |-> "cancelled", error |-> "Declined"])
                 EXCEPT !.nDeclines = @ + 1]]
  /\ UNCHANGED <<password, room, sockQ, ctrlQ, fileQ, authPending, decrypting, snd, sink,
                 wire, relayed, ghost>>

\* leaveRoom(); the relay takes the socket out of the room and emits user-left to
\* the sockets that stay.
leaveRoom(e) ==
  /\ ep["A"].nLeaves + ep["B"].nLeaves < MaxLeaves
  /\ ep[e].mounted /\ e \in room
  /\ ep' = [ep EXCEPT ![e] =
              [teardownPeerConnection(@) EXCEPT !.isConnected = FALSE, !.peerId = NULL,
                                                !.latency = NULL,
                                                !.transfers = <<>>, !.nLeaves = @ + 1]]
  /\ room' = room \ {e}
  /\ sockQ' = [o \in E |-> IF o \in room \ {e}
                           THEN Append(sockQ[o], Msg("user-left", e, 0, ""))
                           ELSE sockQ[o]]
  /\ relayed' = relayed \cup {[type |-> "leave-room", from |-> e, signal |-> ""]}
  /\ ctrlQ' = [ctrlQ EXCEPT ![e] = <<>>]
  /\ fileQ' = [fileQ EXCEPT ![e] = [c \in FileIds |-> <<>>]]
  /\ UNCHANGED <<password, authPending, decrypting, snd, sink, wire, ghost>>

\* handleUserLeft()
handleUserLeft(e) ==
  /\ sockQ[e] # <<>> /\ Head(sockQ[e]).ev = "user-left"
  /\ ep' = [ep EXCEPT ![e] =
              [teardownPeerConnection(@) EXCEPT !.isConnected = FALSE, !.peerId = NULL,
                                                !.latency = NULL]]
  /\ sockQ' = [sockQ EXCEPT ![e] = Tail(@)]
  /\ ctrlQ' = [ctrlQ EXCEPT ![e] = <<>>]
  /\ fileQ' = [fileQ EXCEPT ![e] = [c \in FileIds |-> <<>>]]
  /\ UNCHANGED <<password, room, authPending, decrypting, snd, sink, wire, relayed, ghost>>

\* ------------------------------------------------- the socket reconnects
\* The socket loses its connection: what the relay had on its way to it is lost
\* with the join-room emits not yet handled, and the relay takes the socket out of
\* its rooms.  In the relay's "disconnect" handler socket.rooms is empty already
\* (the rooms are left before the event is emitted), so no user-left is sent.
SocketDrop(e) ==
  /\ ep["A"].nDrops + ep["B"].nDrops < MaxDrops
  /\ ep[e].online
  /\ ep' = [ep EXCEPT ![e].online = FALSE, ![e].pendingJoin = 0, ![e].nDrops = @ + 1]
  /\ room' = room \ {e}
  /\ sockQ' = [sockQ EXCEPT ![e] = <<>>]
  /\ UNCHANGED <<password, ctrlQ, fileQ, authPending, decrypting, snd, sink, wire,
                 relayed, ghost>>

\* handleReconnect(), once the effect has registered it for "connect".
handleReconnect(s) ==
  IF s.peerId # NULL
  THEN [teardownPeerConnection(s) EXCEPT !.isConnected = FALSE, !.peerId = NULL,
                                         !.latency = NULL]
  ELSE s

\* The socket connects under a new socket.id: the send buffer is flushed, then
\* "connect" is emitted and handleReconnect emits join-room.
SocketConnect(e) ==
  /\ ~ep[e].online
  /\ ep' = [ep EXCEPT ![e] =
              [(IF @.mounted THEN handleReconnect(@) ELSE @)
                 EXCEPT !.rejoined = @ \/ ep[e].mounted,
                        !.online = TRUE, !.sid = @ + 1, !.buffered = 0,
                        !.pendingJoin = ep[e].buffered + (IF ep[e].mounted THEN 1 ELSE 0)]]
  /\ ctrlQ' = IF ep[e].mounted /\ ep[e].peerId # NULL
              THEN [ctrlQ EXCEPT ![e] = <<>>] ELSE ctrlQ
  /\ fileQ' = IF ep[e].mounted /\ ep[e].peerId # NULL
              THEN [fileQ EXCEPT ![e] = [c \in FileIds |-> <<>>]] ELSE fileQ
  /\ UNCHANGED <<password, room, sockQ, authPending, decrypting, snd, sink, wire,
                 relayed, ghost>>

\* The relay handles one join-room of the socket.
ServerJoin(e) ==
  /\ ep[e].online /\ ep[e].pendingJoin > 0
  /\ ep' = [ep EXCEPT ![e].pendingJoin = @ - 1]
  /\ JoinRoom(e)
  /\ UNCHANGED <<password, ctrlQ, fileQ, authPending, decrypting, snd, sink, wire, ghost>>

\* Nothing of an earlier substream file-<id> can act any more: both ends are closed
\* with their close events handled, no frame or decryption is pending, and the send
\* coroutine has ended.
Inert(id) ==
  /\ \A o \in E : /\ ep[o].chanRS[id] \in {"none", "closed"}
                   /\ id \notin ep[o].chanCloseEvt
                   /\ fileQ[o][id] = <<>>
                   /\ decrypting[o][id] = <<>>
  /\ snd[id].pc \in {"idle", "failed", "rejected", "closed"}

\* retryTransfer: t && t.file && t.status === "error" (only the records that
\* sendSingleFile writes have a file).
retryTest(t) == t.direction = "send" /\ t.status = "error"

\* retryTransfer(id): sendSingleFile(t.file, id). The call is taken when the earlier
\* substream of the id is inert, so that chanRS[id] at both ends, wire and snd can
\* stand for the fresh substream from here on.
retryTransfer(e, id) ==
  /\ ep["A"].nRetries + ep["B"].nRetries < MaxRetries
  /\ id \in DOMAIN ep[e].transfers /\ Inert(id)
  /\ LET t == ep[e].transfers[id]
         o == Other(e)
         go == retryTest(t)
         opens == go /\ ~NotConnected(ep[e])
     IN /\ ep' = [ep EXCEPT
                    ![e] = [(IF go THEN sendSingleFileEp(@, id, t.file) ELSE @)
                              EXCEPT !.nRetries = @ + 1],
                    ![o] = IF opens
                           THEN [@ EXCEPT !.chanRS[id] = "none", !.chanBound = @ \ {id}]
                           ELSE @]
        /\ snd' = IF go THEN [snd EXCEPT ![id] = sendSingleFileSnd(ep[e], @, t.file)] ELSE snd
        /\ wire' = IF opens THEN [wire EXCEPT ![e][id] = <<>>] ELSE wire
  /\ UNCHANGED <<password, room, sockQ, ctrlQ, fileQ, authPending, decrypting, sink,
                 relayed, ghost>>

\* ------------------------------------------------- substream close
\* The peer closed its end of the substream with dc.close(): what it sent before
\* is delivered first, then this end closes.
PeerChanClosed(e, id) ==
  /\ ep[e].chanRS[id] \in {"connecting", "open"}
  /\ ep[Other(e)].chanRS[id] = "closed"
  /\ fileQ[e][id] = <<>>
  /\ ep' = [ep EXCEPT ![e] = dcClose(@, id)]
  /\ UNCHANGED <<password, room, sockQ, ctrlQ, fileQ, authPending, decrypting, snd, sink,
                 wire, relayed, ghost>>

\* An onclose that does not look at the status of the transfer.
FileOnClose_AnyStatus(e, id) ==
  /\ id \in ep[e].chanCloseEvt
  /\ LET s == [ep[e] EXCEPT !.chanCloseEvt = @ \ {id}]
     IN ep' = [ep EXCEPT ![e] =
                 IF id \notin s.chanBound THEN s
                 ELSE [SetTransfer(s, id, [status |-> "error", error |-> "Connection lost"])
                         EXCEPT !.activeChannels = @ \ {id}]]
  /\ UNCHANGED <<password, room, sockQ, ctrlQ, fileQ, authPending, decrypting, snd, sink,
                 wire, relayed, ghost>>

\* dc.onclose of a file substream bound by setupFileDataChannel.
FileOnClose(e, id) ==
  /\ id \in ep[e].chanCloseEvt
  /\ LET s == [ep[e] EXCEPT !.chanCloseEvt = @ \ {id}]
         live == id \in DOMAIN s.transfers /\ s.transfers[id].status \in {"sending", "receiving"}
     IN ep' = [ep EXCEPT ![e] =
                 IF id \notin s.chanBound THEN s
                 ELSE [(IF live THEN SetTransfer(s, id, [status |-> "error", error |-> "Connection lost"])
                        ELSE s)
                         EXCEPT !.activeChannels = @ \ {id}]]
  /\ UNCHANGED <<password, room, sockQ, ctrlQ, fileQ, authPending, decrypting, snd, sink,
                 wire, relayed, ghost>>

\* setTimeout(() => dc.close(), 1000) after the sender completed.
SendCloseTimer(id) ==
  /\ snd[id].pc = "done"
  /\ ep' = [ep EXCEPT ![Owner(id)] = dcClose(@, id)]
  /\ snd' = [snd EXCEPT ![id].pc = "closed"]
  /\ UNCHANGED <<password, room, sockQ, ctrlQ, fileQ, authPending, decrypting, sink, wire,
                 relayed, ghost>>

\* sendFiles([file1, file2]): forEach runs both sendSingleFile calls, up to their
\* first await, in one task.
sendFilesBatch(e) ==
  /\ ep[e].mounted /\ ep["A"].nFiles + ep["B"].nFiles < MaxFiles
  /\ \E files \in [1..MaxBatch -> BatchFiles] :
       LET free == FreshIds(e)
           \* the k-th smallest free id
           idOf(k) == CHOOSE c \in free : Cardinality({x \in free : x < c}) = k - 1
           RECURSIVE After(_)
           After(k) == IF k = 0 THEN ep[e]
                       ELSE sendSingleFileEp(After(k - 1), idOf(k), files[k])
       IN /\ ep' = [ep EXCEPT ![e] = [After(MaxBatch) EXCEPT !.nFiles = @ + 1]]
          /\ snd' = [c \in FileIds |->
                       IF \E k \in 1..MaxBatch : idOf(k) = c
                       THEN sendSingleFileSnd(ep[e], snd[c],
                                              files[CHOOSE k \in 1..MaxBatch : idOf(k) = c])
                       ELSE snd[c]]
  /\ UNCHANGED <<password, room, sockQ, ctrlQ, fileQ, authPending, decrypting, sink,
                 wire, relayed, ghost>>

\* The connection set-up, without the handshake and chat on the control stream.
NextSetup ==
  \E e \in E :
    Mount(e) \/ handleUserJoined(e) \/ handleSignal(e) \/ TransportConnected(e)

\* The files on their substreams, from file-start to the close of each substream.
NextStream ==
  \/ \E e \in E, id \in FileIds :
       \/ OnDataChannelFile(e, id) \/ OnFileMessage(e, id) \/ DecryptDone(e, id)
       \/ PeerChanClosed(e, id) \/ FileOnClose(e, id)
  \/ \E id \in FileIds : SendOpen(id) \/ SendRead(id) \/ SendEncrypted(id)
                         \/ SendCloseTimer(id)

\* A batch of transfers with the user cancelling them at either end. The files
\* of a batch have one chunk each, so the send loop never waits for the buffer.
NextCancel ==
  \/ NextSetup \/ NextStream
  \/ \E e \in E : sendFilesBatch(e)
  \/ \E e \in E, id \in FileIds : cancelTransfer(e, id)

\* One transfer with the receiver accepting or declining the file and either
\* user leaving the room.
NextSettle ==
  \/ NextSetup \/ NextStream
  \/ \E e \in E : sendFiles(e) \/ leaveRoom(e) \/ handleUserLeft(e)
                  \/ PeerGone(e) \/ IceFailed(e)
  \/ \E e \in E, id \in FileIds :
       acceptFile(e, id) \/ declineFile(e, id)
  \/ \E e \in E, id \in FileIds : retryTransfer(e, id)
  \/ \E id \in FileIds : BufferedAmountLow(id) \/ OpenTimeout(id) \/ BufferTimeout(id)

\* The two endpoints joining, leaving and pairing while their sockets lose and
\* regain the connection to the relay.
NextJoin ==
  \E e \in E :
    \/ Mount(e) \/ SocketDrop(e) \/ SocketConnect(e) \/ ServerJoin(e)
    \/ handleUserJoined(e) \/ handleSignal(e) \/ TransportConnected(e)
    \/ leaveRoom(e) \/ handleUserLeft(e) \/ PeerGone(e) \/ IceFailed(e)
    \/ IceDisconnected(e) \/ IceRecovered(e) \/ StatsTick(e) \/ LatencyEffect(e)

SpecJoin == Init /\ [][NextJoin]_vars

\* The rooms the transfers are explored in: no password, or the same on both sides.
InitFiles == Init /\ password \in {[e \in E |-> NoPw], [e \in E |-> "alpha"]}

SpecCancel == InitFiles /\ [][NextCancel]_vars

SpecSettle == InitFiles /\ [][NextSettle]_vars

NextFile ==
  \/ \E e \in E : sendFiles(e)
  \/ \E e \in E, id \in FileIds :
       \/ OnDataChannelFile(e, id) \/ OnFileMessage(e, id) \/ DecryptDone(e, id)
       \/ acceptFile(e, id)
  \/ \E id \in FileIds : SendOpen(id) \/ SendRead(id) \/ SendEncrypted(id)
                         \/ BufferedAmountLow(id)

Next == NextCtrl \/ NextFile

Spec == Init /\ [][Next]_vars

\* The handshake alone: the operations that read or write the control stream, the
\* transport and the relay. No file operation touches the state these use.
SpecCtrl == Init /\ [][NextCtrl]_vars

\* ------------------------------------------- a peer that replays a response
\* The peer's end of the control stream is not bound to run this code: it may send
\* an auth-response recorded in an earlier session of the same room, i.e. one whose
\* MAC is valid under the room password for the challenge of that session.
MaxReplays == 1

ReplayAuthResponse(e) ==
  /\ ep[e].sigInit /\ ep[e].sigRS = "open" /\ ep[e].sigOpened
  /\ password[e] # NoPw
  /\ ghost[e].replays < MaxReplays
  /\ \E n \in Nonces :
       LET old == <<"nonce", n>>
       IN /\ btoa(old) # ghost[e].challenge
          /\ ctrlQ' = [ctrlQ EXCEPT ![e] =
               Append(@, AuthResponseFrame(btoa(signChallenge(old, password[e])), btoa(old)))]
  /\ ghost' = [ghost EXCEPT ![e].replays = @ + 1]
  /\ UNCHANGED <<password, ep, room, sockQ, fileQ, authPending, decrypting, snd, sink,
                 wire, relayed>>

\* The handshake runs on the control stream alone, so the replay is explored with
\* the control-stream operations.
NextReplay == NextCtrl \/ \E e \in E : ReplayAuthResponse(e)
SpecReplay == Init /\ [][NextReplay]_vars

\* ------------------------------------------------------------------ claims
Chans == {0} \cup FileIds
FramesOf(e, c) == {wire[e][c][k] : k \in 1..Len(wire[e][c])}
SentType(e, c, type) == \E w \in FramesOf(e, c) : w.f.type = type
PayloadTypes == {"chat", "file-start", "chunk", "file-end"}
SamePassword == password["A"] = password["B"]
BothPasswords == password["A"] # NoPw /\ password["B"] # NoPw
OnePassword == (password["A"] = NoPw) # (password["B"] = NoPw)
Initiator(e) == ep[e].pcInit /\ ep[e].cs # "none"
TornDown(e) == ~ep[e].pcRef /\ ep[e].cs = "closed" /\ ep[e].peerId = NULL /\ ~ep[e].isConnected

\* C1: with no password on both sides or the same password on both sides, every
\* payload acceptFile(id) hands to the sink equals the file the peer sent under id.
C1_PayloadEqualsFile ==
  \A e \in E : \A k \in 1..Len(sink[e]) :
    SamePassword => sink[e][k].payload = ep[Other(e)].transfers[sink[e][k].id].file

\* C2: in both roles, a substream file-<id> the peer opened is bound to a receiver
\* at this endpoint as soon as it is open here.
C2_IncomingSubstreamBound ==
  \A e \in E : \A id \in FileIds :
    (Owner(id) = Other(e) /\ ep[e].chanRS[id] = "open") => id \in ep[e].chanBound

\* C3: every chat, file-start, chunk or file-end frame is sent by an endpoint whose
\* own handshake has reached admitted or skipped.
C3_NoPayloadBeforeAdmission ==
  \A e \in E : \A c \in Chans : \A w \in FramesOf(e, c) :
    w.f.type \in PayloadTypes => w.auth \in {"admitted", "skipped"}

\* C4: in a session whose handshake ends rejected, no chat, file-start or file-end
\* frame has been sent by either endpoint.
C4_NoPayloadInRejectedSession ==
  (\E e \in E : ghost[e].auth = "rejected") =>
    \A e \in E : \A c \in Chans : \A w \in FramesOf(e, c) :
      w.f.type \notin {"chat", "file-start", "file-end"}

\* C5: the initiator sends auth-ok only for an auth-response that echoes the
\* challenge the initiator sent on this control stream.
C5_OkOnlyForOwnChallenge ==
  \A e \in E : \A c \in ghost[e].okFor : c = ghost[e].challenge

\* C6: if both endpoints have a password and the passwords differ, no endpoint sends
\* auth-ok, and the initiator whose verification failed has recorded the
\* wrong-password error, sent auth-fail and torn down its transport and peer state.
C6_MismatchNeverOk ==
  (BothPasswords /\ ~SamePassword) =>
    \A e \in E :
      /\ ~SentType(e, 0, "auth-ok")
      /\ ghost[e].auth # "admitted"
      /\ (Initiator(e) /\ authPending[e] = {} /\ SentType(Other(e), 0, "auth-response")
            /\ ~\E k \in 1..Len(ctrlQ[e]) : ctrlQ[e][k].type = "auth-response")
         => /\ ep[e].authError = "Wrong password - authentication failed."
            /\ SentType(e, 0, "auth-fail")
            /\ TornDown(e)

C6_Witness ==
  /\ BothPasswords /\ ~SamePassword
  /\ ep["A"].authError = "Wrong password - authentication failed."
  /\ TornDown("A")

\* C7: when an endpoint has sent auth-fail and the other endpoint's control stream
\* has ended, the other endpoint has observed the rejection: its auth error is set
\* and its transport and peer state are torn down.
C7_RejectionObserved ==
  \A e \in E :
    (SentType(e, 0, "auth-fail") /\ ep[Other(e)].sigRS = "closed")
      => /\ ep[Other(e)].authError # NULL
         /\ TornDown(Other(e))

\* C8: when exactly one endpoint has a password, no endpoint sends auth-ok or is
\* admitted, and an endpoint whose control stream has ended has recorded an auth
\* error and torn down its transport and peer state.
C8_OneSidedPasswordRejected ==
  OnePassword =>
    \A e \in E :
      /\ ~SentType(e, 0, "auth-ok")
      /\ ghost[e].auth \notin {"admitted", "skipped"}
      /\ ep[e].sigRS = "closed" => (ep[e].authError # NULL /\ TornDown(e))

\* C9: with the same password on both sides, or none on both, no auth-fail is sent,
\* no endpoint is rejected or torn down, each endpoint sends at most the frames of
\* one round trip (auth-skip; or auth-challenge then auth-ok; or auth-response), and
\* once both ends have opened and nothing is in flight both endpoints are admitted
\* or skipped.
AuthFramesSent(e) ==
  LET all == [k \in 1..Len(wire[e][0]) |-> wire[e][0][k].f.type]
  IN SelectSeq(all, LAMBDA t : t # "chat")
IsPrefix(p, q) == Len(p) <= Len(q) /\ p = SubSeq(q, 1, Len(p))
C9_HandshakeCompletes ==
  SamePassword =>
    /\ \A e \in E :
         /\ ~SentType(e, 0, "auth-fail")
         /\ ghost[e].auth # "rejected" /\ ep[e].authError = NULL
         /\ ep[e].cs # "closed"
         /\ \/ IsPrefix(AuthFramesSent(e), <<"auth-skip">>)
            \/ IsPrefix(AuthFramesSent(e), <<"auth-challenge", "auth-ok">>)
            \/ IsPrefix(AuthFramesSent(e), <<"auth-response">>)
    /\ ((\A e \in E : ep[e].sigOpened /\ ctrlQ[e] = <<>> /\ authPending[e] = {})
          => \A e \in E : ghost[e].auth = IF password[e] = NoPw THEN "skipped" ELSE "admitted")

C9_Witness ==
  /\ password["A"] = "alpha" /\ password["B"] = "alpha"
  /\ \A e \in E : ghost[e].auth = "admitted" /\ ep[e].isConnected
  /\ AuthFramesSent("A") = <<"auth-challenge", "auth-ok">>
  /\ AuthFramesSent("B") = <<"auth-response">>

\* C10: no frame on the control stream, on a file substream or through the relay
\* carries the password, as text or base64: an auth-challenge carries a random
\* nonce and an auth-response that nonce and the MAC over it.
CarriesPassword(x, pw) == x = <<pw>> \/ x = btoa(<<pw>>)
FrameCarriesPassword(f, pw) ==
  CASE f.type = "auth-challenge" -> CarriesPassword(f.challenge, pw)
    [] f.type = "auth-response" ->
         CarriesPassword(f.challenge, pw) \/ CarriesPassword(f.signature, pw)
    [] f.type = "chat" -> CarriesPassword(f.text, pw)
    [] f.type = "file-start" -> f.name = pw
    [] OTHER -> FALSE
C10_PasswordNeverSent ==
  /\ \A e \in E : \A c \in Chans : \A w \in FramesOf(e, c) :
       /\ \A pw \in Passwords : ~FrameCarriesPassword(w.f, pw)
       /\ w.f.type = "auth-challenge" => \E n \in Nonces : w.f.challenge = btoa(<<"nonce", n>>)
       /\ w.f.type = "auth-response" =>
            /\ \E n \in Nonces : w.f.challenge = btoa(<<"nonce", n>>)
            /\ w.f.signature = btoa(signChallenge(atob(w.f.challenge), password[e]))
  /\ \A r \in relayed : \A pw \in Passwords : r.signal # pw /\ r.type # pw

C10_Witness ==
  /\ SentType("B", 0, "auth-response")
  /\ SentType("A", 0, "auth-ok")

\* C11: when a password is set, a chat frame put on the control stream of an
\* admitted session does not carry the text the user typed.
C11_ChatTextNotPlain ==
  \A e \in E : \A w \in FramesOf(e, 0) :
    (w.f.type = "chat" /\ password[e] # NoPw /\ w.auth = "admitted") =>
      \A k \in 1..Len(ep[e].chatMessages) :
        (ep[e].chatMessages[k].from = "me" /\ ep[e].chatMessages[k].id = w.f.id)
          => w.f.text # ep[e].chatMessages[k].text

\* C12: once a chunk of a receiving transfer failed to decrypt, the transfer is in
\* status error and no PendingFile is published for it, whatever arrives later on
\* the substream.
C12_DecryptFailureIsFinal ==
  \A e \in E : \A id \in ghost[e].decryptFailed :
    /\ id \in DOMAIN ep[e].transfers => ep[e].transfers[id].status = "error"
    /\ id \notin DOMAIN ep[e].pendingFiles

\* C20: while a file of declared size s > 0 is being sent, the progress reported
\* after b bytes is floor((b / s) * 100).
C20_ProgressIsFloor ==
  \A id \in FileIds :
    LET e == Owner(id) IN
    (snd[id].pc \in {"read", "enc", "buf"} /\ id \in DOMAIN ep[e].transfers
       /\ ep[e].transfers[id].status = "sending" /\ ep[e].transfers[id].size > 0)
      => ep[e].transfers[id].progress = (100 * snd[id].sentSize) \div ep[e].transfers[id].size

\* C13: a transfer that its sender cancelled with cancelTransfer while it was
\* sending has status cancelled at the sender from then on.
C13_CancelWhileSendingEndsCancelled ==
  \A e \in E : \A id \in ghost[e].cancelSending :
    id \in DOMAIN ep[e].transfers => ep[e].transfers[id].status = "cancelled"

\* C14: no endpoint puts more than one transfer-cancelled frame on a substream,
\* however often cancelTransfer is called for its transfer.
C14_OneCancelFramePerTransfer ==
  \A e \in E : \A id \in FileIds :
    Cardinality({k \in 1..Len(wire[e][id]) : wire[e][id][k].f.type = "transfer-cancelled"}) <= 1

\* What an endpoint and the streams hold about the transfer id.
AboutTransfer(e, id) ==
  [ transfer |-> IF id \in DOMAIN ep[e].transfers THEN <<ep[e].transfers[id]>> ELSE <<>>,
    state    |-> IF id \in DOMAIN ep[e].transferStates THEN <<ep[e].transferStates[id]>> ELSE <<>>,
    pending  |-> IF id \in DOMAIN ep[e].pendingFiles THEN <<ep[e].pendingFiles[id]>> ELSE <<>>,
    active   |-> id \in ep[e].activeChannels,
    chan     |-> ep[e].chanRS[id],
    queue    |-> fileQ[e][id],
    sent     |-> wire[e][id],
    loop     |-> snd[id] ]

\* C15: a call of cancelTransfer changes, at both endpoints, nothing about any
\* transfer but the one it names: record, cancellation flag and chunk list,
\* PendingFile, substream, queued and sent frames, and position of the send loop.
C15_CancelLeavesOthers ==
  [][\A e \in E :
       ep'[e].nCancels = ep[e].nCancels + 1 =>
         \E id1 \in DOMAIN ep[e].transfers :
           \A id2 \in FileIds \ {id1} : \A o \in E :
             AboutTransfer(o, id2)' = AboutTransfer(o, id2)]_vars

\* A transfer that was being sent when another one of the batch was cancelled has
\* completed at the sender and waits for acceptance, whole, at the receiver.
C15_Witness ==
  \E e \in E : \E id2 \in ghost[e].concurrent :
    /\ ghost[e].cancelSending # {}
    /\ id2 \in DOMAIN ep[e].transfers /\ ep[e].transfers[id2].status = "completed"
    /\ id2 \in DOMAIN ep[Other(e)].pendingFiles
    /\ Len(ep[Other(e)].pendingFiles[id2].blob) = BatchFileLen

\* C16: a transfer whose status is completed, cancelled or error keeps that status
\* in every step, for as long as its record exists.
C16_StatusIsFinal ==
  [][\A e \in E : \A id \in DOMAIN ep[e].transfers :
       (ep[e].transfers[id].status \in {"completed", "cancelled", "error"}
          /\ id \in DOMAIN ep'[e].transfers)
         => ep'[e].transfers[id].status = ep[e].transfers[id].status]_vars

\* C17: at every endpoint, an id that has a PendingFile has a transfer record, and
\* the status of that record is pending-accept.
C17_PendingFileMeansPendingAccept ==
  \A e \in E : \A id \in DOMAIN ep[e].pendingFiles :
    /\ id \in DOMAIN ep[e].transfers
    /\ ep[e].transfers[id].status = "pending-accept"

\* The step hands the PendingFile of id to the output sink of e: the sink gains
\* that blob under that name, the PendingFile is gone, and the transfer, if its
\* record exists, is completed.
Delivers(e, id) ==
  /\ id \in DOMAIN ep[e].pendingFiles
  /\ sink'[e] = Append(sink[e], [id |-> id, name |-> ep[e].pendingFiles[id].name,
                                 payload |-> ep[e].pendingFiles[id].blob])
  /\ id \notin DOMAIN ep'[e].pendingFiles
  /\ id \in DOMAIN ep[e].transfers =>
       /\ id \in DOMAIN ep'[e].transfers
       /\ ep'[e].transfers[id].status = "completed"

\* The step discards the PendingFile of id, if any, and marks the transfer, if its
\* record exists, as cancelled with the error Declined.
Discards(e, id) ==
  /\ id \notin DOMAIN ep'[e].pendingFiles
  /\ \A c \in DOMAIN ep[e].pendingFiles \ {id} :
       c \in DOMAIN ep'[e].pendingFiles /\ ep'[e].pendingFiles[c] = ep[e].pendingFiles[c]
  /\ id \in DOMAIN ep[e].transfers =>
       /\ id \in DOMAIN ep'[e].transfers
       /\ ep'[e].transfers[id].status = "cancelled"
       /\ ep'[e].transfers[id].error = "Declined"

\* C18: the output sink of an endpoint changes only in a step that hands one of
\* its PendingFiles to it and removes that PendingFile, so that no id is delivered
\* twice; a declineFile step leaves every sink as it is and discards the PendingFile.
C18_SinkOnlyThroughAccept ==
  [][\A e \in E :
       /\ sink'[e] # sink[e] => \E id \in FileIds : Delivers(e, id)
       /\ \A j, k \in 1..Len(sink'[e]) : sink'[e][j].id = sink'[e][k].id => j = k
       /\ ep'[e].nDeclines = ep[e].nDeclines + 1 =>
            sink' = sink /\ \E id \in FileIds : Discards(e, id)]_vars

\* An endpoint accepted the one file it received: the sink holds it, whole, the
\* PendingFile is gone and the transfer is completed.
C18_Witness ==
  \E e \in E : \E id \in FileIds :
    /\ Len(sink[e]) = 1 /\ sink[e][1].id = id /\ Len(sink[e][1].payload) = MaxFileLen
    /\ id \notin DOMAIN ep[e].pendingFiles
    /\ id \in DOMAIN ep[e].transfers /\ ep[e].transfers[id].status = "completed"

\* C19: at both endpoints the progress of every transfer is within 0..100 and no
\* step lowers it.
C19_ProgressMonotoneInRange ==
  [][\A e \in E : \A id \in DOMAIN ep[e].transfers :
       /\ ep[e].transfers[id].progress \in 0..100
       /\ id \in DOMAIN ep'[e].transfers =>
            ep'[e].transfers[id].progress >= ep[e].transfers[id].progress]_vars

\* The positions of the chunk frames an endpoint sent on a substream.
ChunkAt(e, id) == {k \in 1..Len(wire[e][id]) : wire[e][id][k].f.type = "chunk"}

\* C21: on every substream, each chunk sent before another chunk carries exactly
\* CHUNK_SIZE bytes of the file: only the last chunk of a file may be short.
C21_OnlyLastChunkShort ==
  \A e \in E : \A id \in FileIds :
    \A j, k \in ChunkAt(e, id) :
      j < k => Len(wire[e][id][j].f.bin.data) = CHUNK_SIZE

\* The types of the frames an endpoint sent on a substream, in order.
TypesSent(e, id) == [k \in 1..Len(wire[e][id]) |-> wire[e][id][k].f.type]

\* C22: for a file of 0 bytes the sender puts file-start and then file-end on the
\* substream and no chunk, and once its loop is through the transfer is completed
\* with progress 100; the receiver's PendingFile has an empty payload and progress
\* 100, and what acceptFile delivers is empty, with the transfer completed. (The
\* statuses are those of a transfer that no declineFile call has overwritten.)
C22_EmptyFileCompletes ==
  \A id \in FileIds :
    LET e == Owner(id)
        o == Other(e)
    IN (id \in DOMAIN ep[e].transfers /\ ep[e].transfers[id].file = <<>>) =>
         /\ IsPrefix(TypesSent(e, id), <<"file-start", "file-end">>)
         /\ (snd[id].pc \in {"done", "closed"} /\ ep[e].nDeclines = 0) =>
              /\ ep[e].transfers[id].status = "completed"
              /\ ep[e].transfers[id].progress = 100
         /\ id \in DOMAIN ep[o].pendingFiles =>
              /\ ep[o].pendingFiles[id].blob = <<>>
              /\ (id \in DOMAIN ep[o].transfers /\ ep[o].nDeclines = 0) =>
                   /\ ep[o].transfers[id].status = "pending-accept"
                   /\ ep[o].transfers[id].progress = 100
         /\ \A k \in 1..Len(sink[o]) :
              sink[o][k].id = id =>
                /\ sink[o][k].payload = <<>>
                /\ (id \in DOMAIN ep[o].transfers /\ ep[o].nDeclines = 0) =>
                     /\ ep[o].transfers[id].status = "completed"
                     /\ ep[o].transfers[id].progress = 100

\* A file of 0 bytes went through: file-start and file-end were sent, the sender is
\* completed and the receiver accepted the empty payload.
C22_Witness ==
  \E id \in FileIds :
    LET e == Owner(id)
        o == Other(e)
    IN /\ id \in DOMAIN ep[e].transfers /\ ep[e].transfers[id].file = <<>>
       /\ TypesSent(e, id) = <<"file-start", "file-end">>
       /\ ep[e].transfers[id].status = "completed"
       /\ Len(sink[o]) = 1 /\ sink[o][1].id = id /\ sink[o][1].payload = <<>>
       /\ id \in DOMAIN ep[o].transfers /\ ep[o].transfers[id].status = "completed"

\* C23: a send whose substream did not open before the 5 s timer fired has left
\* status sending: its transfer is in error, with the file retained.
C23_OpenTimeoutIsError ==
  \A id \in FileIds :
    (snd[id].pc = "rejected" /\ id \in DOMAIN ep[Owner(id)].transfers) =>
      /\ ep[Owner(id)].transfers[id].status = "error"
      /\ ep[Owner(id)].transfers[id].file = snd[id].rest

\* The transfer of id at its sender is in error and has kept its file.
ErrorWithFile(id, file) ==
  /\ ep[Owner(id)].transfers[id].status = "error"
  /\ ep[Owner(id)].transfers[id].file = file

\* C24: a step in which the send of a transfer fails, without the user having
\* cancelled it, leaves the transfer in error with its file; and a retryTransfer
\* step changes nothing unless the transfer is in error with a file, in which case,
\* on a connected transport, the id gets a substream in state connecting, bound and
\* in the active map, and the transfer is sending again, from progress 0, with the
\* same file.
C24_FailureIsErrorAndRetryReopens ==
  [][/\ \A id \in FileIds :
          LET e == Owner(id) IN
          (/\ snd[id].pc \notin {"failed", "rejected"}
           /\ snd'[id].pc \in {"failed", "rejected"}
           /\ id \in DOMAIN ep[e].transfers
           /\ ~ep[e].transferStates[id].cancelled)
            => ErrorWithFile(id, ep[e].transfers[id].file)'
     /\ \A e \in E :
          ep'[e].nRetries = ep[e].nRetries + 1 =>
            \E id \in DOMAIN ep[e].transfers :
              LET t == ep[e].transfers[id] IN
              IF t.status = "error" /\ t.direction = "send"
              THEN ~NotConnected(ep[e]) =>
                     /\ ep'[e].chanRS[id] = "connecting"
                     /\ id \in ep'[e].activeChannels /\ id \in ep'[e].chanBound
                     /\ ep'[e].transfers[id] =
                          [t EXCEPT !.status = "sending", !.progress = 0, !.error = NULL]
                     /\ snd'[id].pc = "waitOpen" /\ snd'[id].rest = t.file
              ELSE /\ ep'[e] = [ep[e] EXCEPT !.nRetries = @ + 1]
                   /\ UNCHANGED <<snd, wire, fileQ>>]_vars

\* C25: a sendFiles step taken while the endpoint has no transport, or one whose
\* connection state is not connected, adds one transfer record with status error,
\* error Not connected, progress 0 and the file, and changes nothing else: no
\* substream, no entry in the active map, no send coroutine, no frame.
C25_NotConnectedIsImmediateError ==
  [][\A e \in E :
       (ep'[e].nFiles = ep[e].nFiles + 1 /\ (~ep[e].pcRef \/ ep[e].cs # "connected")) =>
         \E id \in IdsOf(e) \ DOMAIN ep[e].transfers : \E data \in Files :
           /\ ep'[e] = [ep[e] EXCEPT
                          !.nFiles = @ + 1,
                          !.transfers = Put(@, id,
                            [id |-> id, name |-> FileName, size |-> Len(data),
                             progress |-> 0, status |-> "error", direction |-> "send",
                             error |-> "Not connected", file |-> data])]
           /\ UNCHANGED <<snd, wire, fileQ, ctrlQ>>]_vars

\* A file was sent on a transport that exists but is not connected yet: its record
\* is in error, Not connected, and the id has no substream and no frame.
C25_Witness ==
  \E e \in E : \E id \in DOMAIN ep[e].transfers :
    /\ ep[e].pcRef /\ ep[e].cs # "connected"
    /\ ep[e].transfers[id].status = "error"
    /\ ep[e].transfers[id].error = "Not connected"
    /\ Len(ep[e].transfers[id].file) = MaxFileLen
    /\ ep[e].chanRS[id] = "none" /\ wire[e][id] = <<>>

\* ------------------------------------------------------------------ C26
\* The socket of e connects again with the hook mounted.
ReconnectStep(e) == ep[e].mounted /\ ~ep[e].online /\ ep'[e].online

\* The step emits join-room and, if a peer was bound, leaves no transport, no peer
\* and no open substream behind.
RejoinsAndClears(e) ==
  /\ ep'[e].pendingJoin >= 1
  /\ ep[e].peerId # NULL =>
        /\ ~ep'[e].pcRef /\ ep'[e].nLive = 0 /\ ep'[e].activeChannels = {}
        /\ ep'[e].peerId = NULL /\ ep'[e].isConnected = FALSE

ReconnectRejoins == \A e \in E : ReconnectStep(e) => RejoinsAndClears(e)

\* Both hooks are mounted on connected sockets, neither user has left, one socket
\* at least has reconnected, and nothing is left to happen: no join-room is held
\* or on its way, no relay event is to be handled and no transport is about to
\* connect.
Settled ==
  /\ \A e \in E : /\ ep[e].mounted /\ ep[e].online /\ ep[e].nLeaves = 0
                   /\ ep[e].buffered = 0 /\ ep[e].pendingJoin = 0 /\ sockQ[e] = <<>>
                   /\ ~(ep[e].cs = "new" /\ Negotiated(e))
  /\ \E e \in E : ep[e].rejoined

\* A transport is established between the two endpoints.
Established ==
  \A e \in E : ep[e].cs = "connected" /\ ep[e].remoteGen = ep[Other(e)].gen

\* C26: a reconnect of the socket emits join-room without user action and, if a
\* peer was bound, tears the transport down and clears the peer state; afterwards
\* a new transport is established between the two endpoints (once nothing is
\* left to happen, it is there).
C26_ReconnectReestablishes ==
  [][ReconnectRejoins /\ (Settled' => Established')]_vars

\* ------------------------------------------------------------------ C27
\* The endpoint holds a transport that is not closed, that it created as initiator
\* for the socket the peer has now.
LiveInitiator(e) ==
  /\ ep[e].pcRef /\ ep[e].pcInit /\ ep[e].cs \notin {"none", "closed", "failed"}
  /\ ep[e].peerId = Other(e)
  /\ ep[Other(e)].online /\ ep[e].peerSid = ep[Other(e)].sid

\* C27: after any sequence of joins and socket reconnects, the two endpoints never
\* both hold a live transport created as initiator for each other.
C27_SingleInitiator == ~(\A e \in E : LiveInitiator(e))

\* ------------------------------------------------------------------ C28
\* C28: an endpoint has at most one RTCPeerConnection that is not closed, under any
\* sequence of user-joined, offer, user-left and reconnect events.
C28_OneLiveTransport == \A e \in E : ep[e].nLive <= 1

\* An endpoint connected on its second transport or a later one, after the peer's
\* socket lost its connection.
C28_Witness ==
  \E e \in E : /\ ep[e].gen >= 2 /\ ep[e].nLive = 1 /\ ep[e].cs = "connected"
                /\ ep[Other(e)].nDrops > 0

\* ------------------------------------------------------------------ C29
\* The steps that need no user: the relay's events, the transport, the frames and
\* close events of the substreams, the send coroutines and their timers.
SystemNext ==
  \/ NextSetup \/ NextStream
  \/ \E e \in E : handleUserLeft(e) \/ PeerGone(e) \/ IceFailed(e)
  \/ \E id \in FileIds : BufferedAmountLow(id) \/ OpenTimeout(id) \/ BufferTimeout(id)

\* Nothing is left to happen unless a user acts.
Idle == ~ENABLED SystemNext

TerminalAt(e, id) ==
  /\ id \in DOMAIN ep[e].transfers
  /\ ep[e].transfers[id].status \in {"completed", "error", "cancelled", "pending-accept"}

\* The endpoint's end of the substream is closed (or there never was one) and
\* activeChannelsRef has no entry for it.
ClosedAndRemoved(e, id) ==
  ep[e].chanRS[id] \in {"none", "closed"} /\ id \notin ep[e].activeChannels

\* C29: a transfer in a terminal state (completed, error, cancelled, or
\* pending-accept on the receiver) has its substream closed and removed from the
\* active map by the endpoint in the end: once nothing is left to happen, the
\* substream is closed and has no entry.
C29_TerminalClosesSubstream ==
  \A e \in E : \A id \in FileIds :
    (Idle /\ TerminalAt(e, id)) => ClosedAndRemoved(e, id)

\* ------------------------------------------------------------------ C30
\* The step appends a chat frame of the peer to the chat message list of e.
PeerChatAppended(e) ==
  /\ Len(ep'[e].chatMessages) = Len(ep[e].chatMessages) + 1
  /\ ep'[e].chatMessages[Len(ep'[e].chatMessages)].from = "peer"

\* C30: a chat frame received on the control stream before the local handshake is
\* admitted or skipped is discarded: it is not appended to the chat message list.
C30_ChatBeforeAdmissionDiscarded ==
  [][\A e \in E : PeerChatAppended(e) => ghost[e].auth \in {"admitted", "skipped"}]_vars

\* ------------------------------------------------------------------ C31
\* The step handles file-end on the substream: the payload is assembled.
FileEndHandled(e, id) ==
  /\ ep[e].chanRS[id] = "open" /\ fileQ[e][id] # <<>>
  /\ Head(fileQ[e][id]).type = "file-end"
  /\ id \in DOMAIN ep'[e].pendingFiles
  /\ ep'[e].chanRS[id] = "closed"

\* The step pushes a chunk on state.receivedChunks.
ChunkAppended(e, id) ==
  /\ id \in DOMAIN ep[e].transferStates /\ id \in DOMAIN ep'[e].transferStates
  /\ Len(ep'[e].transferStates[id].receivedChunks)
       = Len(ep[e].transferStates[id].receivedChunks) + 1

\* file-end or transfer-cancelled has released the chunk list of the transfer.
Released(e, id) ==
  /\ id \in DOMAIN ep[e].transfers
  /\ \/ ep[e].transfers[id].status \in {"pending-accept", "completed"}
     \/ /\ ep[e].transfers[id].status = "cancelled"
        /\ ep[e].transfers[id].error = "Cancelled by peer"

\* C31: with a password set, the messages of a file substream are handled as if
\* one after the other: a chunk is pushed in arrival order (the oldest one still
\* being decrypted), file-end assembles the payload only when no chunk that
\* arrived before it is still being decrypted, and no chunk is pushed after
\* file-end or transfer-cancelled released the list.
C31_HandlingAsIfSerialized ==
  [][\A e \in E : \A id \in FileIds :
       password[e] # NoPw =>
         /\ FileEndHandled(e, id) => decrypting[e][id] = <<>>
         /\ ChunkAppended(e, id) =>
               /\ decrypting'[e][id] = Tail(decrypting[e][id])
               /\ ~Released(e, id)]_vars

\* ------------------------------------------------------------------ C32
\* The types of the frames the step passes to dc.send on the substream of id.
TypesSentInStep(id) ==
  LET before == wire[Owner(id)][id]
      after == wire'[Owner(id)][id]
  IN IF Len(after) > Len(before)
     THEN {after[k].f.type : k \in (Len(before) + 1)..Len(after)}
     ELSE {}

\* state.cancelled of the sending transfer
CancelFlag(id) ==
  /\ id \in DOMAIN ep[Owner(id)].transferStates
  /\ ep[Owner(id)].transferStates[id].cancelled

\* C32: once the cancellation flag of a sending transfer is set, the send loop
\* sends no further chunk and no file-end on the substream, whichever await it
\* was suspended at.
C32_NothingSentAfterCancel ==
  [][\A id \in FileIds :
       CancelFlag(id) => TypesSentInStep(id) \cap {"chunk", "file-end"} = {}]_vars

\* ------------------------------------------------------------------ C33
\* C33: a send-direction transfer has status completed only if file-end was sent
\* on its substream.
C33_CompletedMeansFileEndSent ==
  \A id \in FileIds :
    LET e == Owner(id) IN
    (/\ id \in DOMAIN ep[e].transfers
     /\ ep[e].transfers[id].direction = "send"
     /\ ep[e].transfers[id].status = "completed")
      => SentType(e, id, "file-end")

\* ------------------------------------------------------------------ C34
\* The bytes of the file that went out in the chunks sent so far, in send order.
SentData(e, id) ==
  Concat([k \in 1..Len(wire[e][id]) |->
            IF wire[e][id][k].f.type = "chunk" THEN wire[e][id][k].f.bin.data ELSE <<>>])

\* The chunk the loop holds while it awaits buffered-amount-low.
HeldChunk(c) ==
  SubSeq(c.value, c.i + 1,
         IF c.i + CHUNK_SIZE < Len(c.value) THEN c.i + CHUNK_SIZE ELSE Len(c.value))

\* The first frame the step sends on the substream of id is the held chunk.
SendsHeldChunk(id) ==
  LET e == Owner(id)
      n == Len(wire[e][id])
  IN /\ Len(wire'[e][id]) > n
     /\ SubSeq(wire'[e][id], 1, n) = wire[e][id]
     /\ wire'[e][id][n + 1].f.type = "chunk"
     /\ wire'[e][id][n + 1].f.bin.data = HeldChunk(snd[id])

\* The step ends the send with the given error, without sending.
FailsWith(id, error) ==
  LET e == Owner(id) IN
  /\ snd'[id].pc = "failed" /\ TypesSentInStep(id) = {}
  /\ id \in DOMAIN ep[e].transfers =>
        /\ ep'[e].transfers[id].error = error
        /\ ep'[e].transfers[id].status = IF CancelFlag(id) THEN "cancelled" ELSE "error"

\* C34: a chunk is not sent while bufferedAmount was found above the threshold:
\* the loop suspends without sending, a buffered-amount-low resumes it with that
\* same chunk (or finds the substream closed), and the 30 s timer fails the transfer
\* with "Buffer timeout"; the chunks sent are the bytes of the file in order,
\* none dropped, skipped or reordered.
C34_BackpressureKeepsChunks ==
  [][\A id \in FileIds :
       LET e == Owner(id) IN
       /\ (snd[id].pc # "buf" /\ snd'[id].pc = "buf") => TypesSentInStep(id) = {}
       /\ (snd[id].pc = "buf" /\ snd'[id].pc # "buf") =>
             \/ SendsHeldChunk(id)
             \/ FailsWith(id, "Buffer timeout")
             \/ ep[e].chanRS[id] # "open" /\ FailsWith(id, "Connection closed")
       /\ (id \in DOMAIN ep'[e].transfers /\ ep'[e].transfers[id].direction = "send")
             => IsPrefix(SentData(e, id)', ep'[e].transfers[id].file)]_vars

\* The first chunk of a file went out; with it still buffered the loop holds the
\* second one and awaits buffered-amount-low.
C34_Witness ==
  \E id \in FileIds :
    /\ id \in DOMAIN ep[Owner(id)].transfers
    /\ snd[id].pc = "buf" /\ snd[id].i = CHUNK_SIZE
    /\ SentData(Owner(id), id) \o HeldChunk(snd[id]) = ep[Owner(id)].transfers[id].file

\* ------------------------------------------------------------------ C35
\* The step is the close event of e's end of the substream of id.
CloseEventStep(e, id) == id \in ep[e].chanCloseEvt /\ id \notin ep'[e].chanCloseEvt

\* C35: the close of a file substream turns a transfer that is receiving or
\* sending into error "Connection lost" and leaves a transfer in any other status
\* as it is; the receiver's own close at file-end leaves pending-accept.
C35_CloseWhileActiveIsConnectionLost ==
  [][\A e \in E : \A id \in FileIds :
       CloseEventStep(e, id) =>
         IF id \in DOMAIN ep[e].transfers
            /\ ep[e].transfers[id].status \in {"receiving", "sending"}
         THEN ep'[e].transfers =
                [ep[e].transfers EXCEPT ![id].status = "error",
                                        ![id].error = "Connection lost"]
         ELSE ep'[e].transfers = ep[e].transfers]_vars

\* The substream of a receiver closed while it was receiving and the close event
\* was handled: the transfer is error "Connection lost".
C35_Witness ==
  \E e \in E : \E id \in DOMAIN ep[e].transfers :
    /\ ep[e].transfers[id].direction = "receive"
    /\ ep[e].transfers[id].status = "error"
    /\ ep[e].transfers[id].error = "Connection lost"
    /\ id \notin ep[e].chanCloseEvt /\ ep[e].chanRS[id] = "closed"

\* ------------------------------------------------------------------ C36
\* The engine's part of an endpoint: the record without the states of the
\* transport and of its channels, which the browser changes.
EngineOf(s) ==
  [s EXCEPT !.cs = "", !.ss = "", !.sigRS = "", !.chanRS = NoChan,
            !.sigCloseEvt = FALSE, !.chanCloseEvt = {}]

\* The step handles a user-joined or an offer at e.
HandlesJoinOrOffer(e) ==
  /\ sockQ[e] # <<>> /\ sockQ'[e] = Tail(sockQ[e]) /\ ep'[e].online
  /\ \/ Head(sockQ[e]).ev = "user-joined"
     \/ Head(sockQ[e]).ev = "signal" /\ Head(sockQ[e]).signal = "offer"

OfferResumed(e) ==
  \E n \in ep[e].negotiating : handleSignalResume(e, n)

\* The join and negotiation of SpecJoin with the offer handling of handleSignal taken
\* one await at a time.
NextSignal ==
  \E e \in E :
    \/ Mount(e) \/ SocketDrop(e) \/ SocketConnect(e) \/ ServerJoin(e)
    \/ handleUserJoined(e) \/ handleSignalBegin(e)
    \/ OfferResumed(e)
    \/ TransportConnected(e) \/ leaveRoom(e) \/ handleUserLeft(e) \/ PeerGone(e)
    \/ IceFailed(e)

SpecSignal == Init /\ [][NextSignal]_vars

HandlesSignal(e, type) ==
  /\ sockQ[e] # <<>> /\ sockQ'[e] = Tail(sockQ[e]) /\ ep'[e].online
  /\ Head(sockQ[e]).ev = "signal" /\ Head(sockQ[e]).signal = type

NoLiveTransport(e) ==
  ~ep[e].pcRef \/ ep[e].cs \in {"failed", "closed"}

\* The handling n of e goes on, or ends, in this step.
Resumes(e, n) ==
  n \in ep[e].negotiating /\ n \notin ep'[e].negotiating

\* The object the handling n works on is closed or is no longer the transport of e.
ObjectClosed(e, n) ==
  n.pc # ep[e].gen \/ ep[e].ss \in {"none", "closed"}

AnswerEmitted(e) ==
  \E o \in E :
    /\ Len(sockQ'[o]) = Len(sockQ[o]) + 1
    /\ sockQ'[o][Len(sockQ'[o])].ev = "signal"
    /\ sockQ'[o][Len(sockQ'[o])].signal = "answer"
    /\ sockQ'[o][Len(sockQ'[o])].from = e

ThirdJoin ==
  /\ [type |-> "join-room", from |-> Third, signal |-> ""] \notin relayed
  /\ room' = room \cup {Third}
  /\ sockQ' = [o \in E |-> IF o \in room
                           THEN Append(sockQ[o], ThirdMsg("user-joined", ""))
                           ELSE sockQ[o]]
  /\ relayed' = relayed \cup {[type |-> "join-room", from |-> Third, signal |-> ""]}
  /\ UNCHANGED <<password, ep, ctrlQ, fileQ, authPending, decrypting, snd, sink, wire, ghost>>

ThirdLeave ==
  /\ Third \in room
  /\ room' = room \ {Third}
  /\ sockQ' = [o \in E |-> IF o \in room
                           THEN Append(sockQ[o], ThirdMsg("user-left", ""))
                           ELSE sockQ[o]]
  /\ relayed' = relayed \cup {[type |-> "leave-room", from |-> Third, signal |-> ""]}
  /\ UNCHANGED <<password, ep, ctrlQ, fileQ, authPending, decrypting, snd, sink, wire, ghost>>

\* Two endpoints and a further socket in one room.
NextThird ==
  \/ ThirdJoin \/ ThirdLeave
  \/ \E e \in E :
       \/ Mount(e) \/ handleUserJoined(e) \/ handleSignal(e) \/ TransportConnected(e)
       \/ leaveRoom(e) \/ handleUserLeft(e) \/ PeerGone(e)

SpecThird == Init /\ [][NextThird]_vars

HandlesUserLeft(e) ==
  /\ sockQ[e] # <<>> /\ sockQ'[e] = Tail(sockQ[e]) /\ ep'[e].online
  /\ Head(sockQ[e]).ev = "user-left"

\* The transport of e is bound to its peer and in use: made for the other endpoint,
\* negotiated with the other endpoint's present transport, new or connected.
LiveWithPeer(e) ==
  /\ ep[e].pcRef /\ ep[e].cs \in {"new", "connected"}
  /\ ep[e].peerId = Other(e) /\ Negotiated(e)

\* C38: a user-left that names an id other than the bound peer leaves the live
\* transport with the bound peer as it is: still referenced, in the same state, the
\* peer still bound.
C38_ForeignUserLeftKeepsTransport ==
  [][\A e \in E :
       HandlesUserLeft(e) /\ Head(sockQ[e]).from # ep[e].peerId /\ LiveWithPeer(e) =>
         ep'[e].pcRef /\ ep'[e].cs = ep[e].cs /\ ep'[e].peerId = ep[e].peerId]_vars

\* retryTransfer called as soon as the transfer shows error, while the close event of
\* the substream that failed is still to be dispatched on this side (the peer's side
\* of it is closed and settled): the new substream takes the entry of the map, the
\* earlier one keeps the onclose handler that setupFileDataChannel gave it.
retryTransferNow(e, id) ==
  /\ ep["A"].nRetries + ep["B"].nRetries < MaxRetries
  /\ id \in DOMAIN ep[e].transfers /\ retryTest(ep[e].transfers[id])
  /\ ~NotConnected(ep[e])
  /\ id \in ep[e].chanCloseEvt /\ ep[e].chanRS[id] = "closed"
  /\ ep[Other(e)].chanRS[id] \in {"none", "closed"} /\ id \notin ep[Other(e)].chanCloseEvt
  /\ \A o \in E : fileQ[o][id] = <<>> /\ decrypting[o][id] = <<>>
  /\ snd[id].pc \in {"idle", "failed", "rejected", "closed"}
  /\ LET t == ep[e].transfers[id]
         o == Other(e)
     IN /\ ep' = [ep EXCEPT
                    ![e] = [sendSingleFileEp(@, id, t.file)
                              EXCEPT !.nRetries = @ + 1,
                                     !.chanCloseEvt = @ \ {id},
                                     !.earlierCloseEvt = @ \cup {id}],
                    ![o] = [@ EXCEPT !.chanRS[id] = "none", !.chanBound = @ \ {id}]]
        /\ snd' = [snd EXCEPT ![id] = sendSingleFileSnd(ep[e], @, t.file)]
        /\ wire' = [wire EXCEPT ![e][id] = <<>>]
  /\ UNCHANGED <<password, room, sockQ, ctrlQ, fileQ, authPending, decrypting, sink,
                 relayed, ghost>>

\* dc.onclose of the earlier substream of id.
EarlierOnClose(e, id) ==
  /\ id \in ep[e].earlierCloseEvt
  /\ LET s == [ep[e] EXCEPT !.earlierCloseEvt = @ \ {id}]
         live == id \in DOMAIN s.transfers /\ s.transfers[id].status \in {"sending", "receiving"}
     IN ep' = [ep EXCEPT ![e] =
                 [(IF live THEN SetTransfer(s, id, [status |-> "error", error |-> "Connection lost"])
                   ELSE s)
                    EXCEPT !.activeChannels = @ \ {id}]]
  /\ UNCHANGED <<password, room, sockQ, ctrlQ, fileQ, authPending, decrypting, snd, sink,
                 wire, relayed, ghost>>

\* Transfers that are cancelled by either side and retried at once.
NextRetry ==
  \/ NextSetup \/ NextStream
  \/ \E e \in E : sendFiles(e)
  \/ \E e \in E, id \in FileIds :
       cancelTransfer(e, id) \/ retryTransferNow(e, id) \/ EarlierOnClose(e, id)

SpecRetry == InitFiles /\ [][NextRetry]_vars

EarlierCloseStep(e, id) ==
  id \in ep[e].earlierCloseEvt /\ id \notin ep'[e].earlierCloseEvt

\* C39: across a retry of the same id the entry of the active-substream map is the
\* newest substream's: the close event of the earlier substream leaves the entry in
\* the map and leaves a retried transfer that is sending or receiving as it is.
C39_EarlierCloseLeavesRetry ==
  [][\A e \in E, id \in FileIds :
       EarlierCloseStep(e, id) =>
         /\ id \in ep[e].activeChannels => id \in ep'[e].activeChannels
         /\ id \in DOMAIN ep[e].transfers
               /\ ep[e].transfers[id].status \in {"sending", "receiving"} =>
             ep'[e].transfers[id] = ep[e].transfers[id]]_vars

\* Transfers that are opened and announced while the sockets lose and regain the
\* relay, so that a peer re-joins and the transport is replaced with substreams on it.
NextReplace ==
  \/ NextSetup
  \/ \E e \in E : \/ sendFiles(e)
                  \/ SocketDrop(e) \/ SocketConnect(e) \/ ServerJoin(e)
  \/ \E id \in FileIds : SendOpen(id)
  \/ \E e \in E, id \in FileIds :
       \/ OnDataChannelFile(e, id) \/ OnFileMessage(e, id)
       \/ PeerChanClosed(e, id) \/ FileOnClose(e, id) \/ EarlierOnClose(e, id)

SpecReplace == InitFiles /\ [][NextReplace]_vars

ConnectedHasTransport ==
  \A e \in E : ep[e].isConnected => ep[e].pcRef /\ ep[e].peerId # NULL

\* An event of a transport that this side has torn down or replaced is handled: the
\* close event of one of its substreams.
OldTransportEvent(e) ==
  /\ ep'[e].gen = ep[e].gen
  /\ \E id \in FileIds : \/ EarlierCloseStep(e, id)
                          \/ (~ep[e].pcRef /\ CloseEventStep(e, id))

\* C40: when the connected flag is true a transport exists and a peer id is bound;
\* and an event of a transport that was torn down or replaced changes neither the
\* connected flag, nor the peer id, nor the set of active substreams.
C40_OldTransportIsInert ==
  [][/\ ConnectedHasTransport'
     /\ \A e \in E : OldTransportEvent(e) =>
           /\ ep'[e].isConnected = ep[e].isConnected
           /\ ep'[e].peerId = ep[e].peerId
           /\ ep'[e].activeChannels = ep[e].activeChannels]_vars


====
